---- MODULE Spec2Model ----
(***************************************************************************)
(* A model of the MLIT ingestion pipeline (src/dbutils/ingest_data.py):    *)
(* the record transformer and its parsers, the content hash, the API       *)
(* client's classification of responses, the loader and the harvest loops. *)
(*                                                                         *)
(* Python values are tagged records; a str is the sequence of its          *)
(* characters, so that str(), join, replace, strip, int() and float() are  *)
(* computed character by character and not assumed.                        *)
(***************************************************************************)
EXTENDS Integers, Sequences, FiniteSets, TLC

VARIABLES
    p_fn, p_in, p_out,         \* the parser under call, its argument, its outcome
    t_pc, t_raw, t_args, t_out, \* transform_record: its arguments and outcome
    h_pc, h_raw1, h_raw2,      \* two raw records to hash
    h1, h2, h_xf,              \* their hashes; the first's source_hash
    f_pc, f_call, f_request,   \* get_transactions: its arguments, the request
    f_response, f_out,         \* sent, the response received, the outcome
    prefectures, municipalities, \* the committed rows of the three tables,
    transactions,              \* each keyed by its unique column
    conn_status,               \* the connection: "ok" or in a failed transaction
    open_transactions,         \* the transactions table as its transaction sees it
    statements,                \* what the last call sent on the connection
    l_pc, l_records, l_out,    \* insert_transactions: its batch and outcome,
    l_before,                  \* the transactions table when it was called,
    l_repeat, l_prev_ok,       \* whether it repeats a call, one that returned
    r_pc, r_args, r_now,       \* a run of main: its arguments, the clock,
    r_probe, r_units,          \* the probe's position, the (prefecture, year)
    r_unit, r_quarters,        \* units and the quarters still to harvest,
    r_total_inserted,          \* total_inserted of the unit under way,
    r_request, r_requests,     \* the last API request, the number sent,
    r_waited, r_gap,           \* ms slept since it, ms slept before it
    r_probed, r_found,         \* the probe's fetches and outcomes, its result,
    r_calls,                   \* the fetches of ingest_prefecture_year so far,
    r_last,                    \* the response and report of the unit's last one,
    r_feed,                    \* the upstream data when it is taken as fixed
    r_resumed,                 \* the process was killed and main invoked again
    fx_rates,                  \* the committed rows of the fx_rates table
    x_today, x_api,            \* today's date; the answers the FX API may give
    x_pc, x_todo, x_batch,     \* each run of refresh_fx_rates: its position, the
    x_fetch, x_seen,           \* combinations left, rates_to_insert, the fetch
    x_held, x_applied,         \* under way, its checks; uncommitted and last upserts
    c_pc, c_records,           \* two insert_transactions calls on two connections:
    c_values, c_held,          \* position, batch, rows still to insert, rows
    c_rowcount, c_out,         \* inserted and not committed, cur.rowcount, outcome
    m_pc, m_api_key,           \* main from its first line: position, whether
    m_fx_only                  \* MLIT_API_KEY is set, --refresh-fx-only

parseVars == <<p_fn, p_in, p_out>>
transformVars == <<t_pc, t_raw, t_args, t_out>>
hashVars == <<h_pc, h_raw1, h_raw2, h1, h2, h_xf>>
fetchVars == <<f_pc, f_call, f_request, f_response, f_out>>
storeVars ==
    <<prefectures, municipalities, transactions, conn_status, open_transactions,
      statements>>
loadVars == <<l_pc, l_records, l_out, l_before, l_repeat, l_prev_ok>>
runVars ==
    <<r_pc, r_args, r_now, r_probe, r_units, r_unit, r_quarters, r_total_inserted,
      r_request, r_requests, r_waited, r_gap, r_probed, r_found, r_calls, r_last,
      r_feed, r_resumed>>
fxVars ==
    <<fx_rates, x_today, x_api, x_pc, x_todo, x_batch, x_fetch, x_seen, x_held,
      x_applied>>
concurrentVars == <<c_pc, c_records, c_values, c_held, c_rowcount, c_out>>
mainVars == <<m_pc, m_api_key, m_fx_only>>
vars ==
    <<parseVars, transformVars, hashVars, fetchVars, storeVars, loadVars, runVars,
      fxVars, concurrentVars, mainVars>>

-----------------------------------------------------------------------------
(* Python values.                                                          *)

None == [t |-> "None"]
Str(s) == [t |-> "str", s |-> s]
IntV(n) == [t |-> "int", n |-> n]
\* an int beyond the range of a float, as json gives for a long integer literal
BigInt == [t |-> "bigint"]
FloatV(f) == [t |-> "float", f |-> f]
\* a non-empty JSON array: neither str nor number, truthy, unhashable
ListV == [t |-> "list"]

(* A float: finite (sign, integer part, fraction digits without trailing   *)
(* zeros), nan, or an infinity.                                            *)
Fin(neg, ip, fp) == [k |-> "fin", neg |-> neg, ip |-> ip, fp |-> fp]
NaN == [k |-> "nan"]
Inf(neg) == [k |-> "inf", neg |-> neg]

(* The outcome of a call: a returned value, or a raised exception.         *)
Ret(v) == [exc |-> "", val |-> v]
Raise(e) == [exc |-> e, val |-> None]

-----------------------------------------------------------------------------
(* str primitives.                                                         *)

DigitChars == <<"0", "1", "2", "3", "4", "5", "6", "7", "8", "9">>

IsDigit(c) == \E i \in 1..Len(DigitChars) : DigitChars[i] = c

DigitVal(c) == (CHOOSE i \in 1..Len(DigitChars) : DigitChars[i] = c) - 1

AllDigits(s) == \A i \in 1..Len(s) : IsDigit(s[i])

RECURSIVE DigitsToInt(_)
DigitsToInt(s) ==
    IF s = <<>> THEN 0
    ELSE DigitsToInt(SubSeq(s, 1, Len(s) - 1)) * 10 + DigitVal(s[Len(s)])

RECURSIVE IntToDigits(_)
IntToDigits(n) ==
    IF n < 10 THEN <<DigitChars[n + 1]>>
    ELSE IntToDigits(n \div 10) \o <<DigitChars[(n % 10) + 1]>>

\* str.isspace for the characters of the model's inputs
IsSpace(c) == c = " "

RECURSIVE LStrip(_)
LStrip(s) ==
    IF s # <<>> /\ IsSpace(Head(s)) THEN LStrip(Tail(s)) ELSE s

RECURSIVE RStrip(_)
RStrip(s) ==
    IF s # <<>> /\ IsSpace(s[Len(s)]) THEN RStrip(SubSeq(s, 1, Len(s) - 1)) ELSE s

PyStrip(s) == RStrip(LStrip(s))

\* s.replace(c, "")
RemoveChar(s, c) == SelectSeq(s, LAMBDA x : x # c)

\* pat in s
Contains(s, pat) ==
    \E i \in 1..(Len(s) - Len(pat) + 1) : SubSeq(s, i, i + Len(pat) - 1) = pat

LowerStr(s) ==
    LET \* str.lower on the letters the non-finite float names are written with
        Lower(c) ==
            CASE c = "N" -> "n"
              [] c = "A" -> "a"
              [] c = "I" -> "i"
              [] c = "F" -> "f"
              [] c = "T" -> "t"
              [] c = "Y" -> "y"
              [] OTHER -> c
    IN [i \in 1..Len(s) |-> Lower(s[i])]

RECURSIVE DropTrailingZeros(_)
DropTrailingZeros(s) ==
    IF s # <<>> /\ s[Len(s)] = "0" THEN DropTrailingZeros(SubSeq(s, 1, Len(s) - 1))
    ELSE s

\* a finite float from sign, integer digits and fraction digits; -0.0 == 0.0
MkFin(neg, idigits, fdigits) ==
    LET Of(ip, fp) == Fin(neg /\ ~(ip = 0 /\ fp = <<>>), ip, fp)
    IN Of(DigitsToInt(idigits), DropTrailingZeros(fdigits))

IndexOf(s, c) ==
    IF \E i \in 1..Len(s) : s[i] = c
    THEN CHOOSE i \in 1..Len(s) : s[i] = c /\ \A j \in 1..(i - 1) : s[j] # c
    ELSE 0

(* float(s) for a str: blanks stripped, an optional sign, then nan, inf or *)
(* infinity in any case, or a decimal numeral (digits, at most one point,  *)
(* at least one digit); anything else is a ValueError. Exponents and       *)
(* digit-group underscores are not among the model's inputs.               *)
PyFloatOfStr(s) ==
    LET OfParts(neg, idigits, fdigits) ==
            IF AllDigits(idigits) /\ AllDigits(fdigits)
               /\ Len(idigits) + Len(fdigits) > 0
            THEN Ret(MkFin(neg, idigits, fdigits))
            ELSE Raise("ValueError")
        OfDecimal(neg, body, dot) ==
            OfParts(neg,
                    IF dot = 0 THEN body ELSE SubSeq(body, 1, dot - 1),
                    IF dot = 0 THEN <<>> ELSE SubSeq(body, dot + 1, Len(body)))
        OfBody(neg, body, low) ==
            IF low = <<"n", "a", "n">> THEN Ret(NaN)
            ELSE IF low = <<"i", "n", "f">>
                    \/ low = <<"i", "n", "f", "i", "n", "i", "t", "y">>
            THEN Ret(Inf(neg))
            ELSE OfDecimal(neg, body, IndexOf(body, "."))
        OfStripped(t) ==
            OfBody(t # <<>> /\ Head(t) = "-",
                   IF t # <<>> /\ Head(t) \in {"+", "-"} THEN Tail(t) ELSE t,
                   LowerStr(IF t # <<>> /\ Head(t) \in {"+", "-"} THEN Tail(t) ELSE t))
    IN OfStripped(PyStrip(s))

(* int(s) for a str: blanks stripped, an optional sign, one or more        *)
(* digits; anything else is a ValueError.                                  *)
PyIntOfStr(s) ==
    LET OfSigned(neg, body) ==
            IF body # <<>> /\ AllDigits(body)
            THEN Ret(IF neg THEN 0 - DigitsToInt(body) ELSE DigitsToInt(body))
            ELSE Raise("ValueError")
        OfStripped(t) ==
            OfSigned(t # <<>> /\ Head(t) = "-",
                     IF t # <<>> /\ Head(t) \in {"+", "-"} THEN Tail(t) ELSE t)
    IN OfStripped(PyStrip(s))

\* repr of a float
FloatStr(f) ==
    CASE f.k = "nan" -> <<"n", "a", "n">>
      [] f.k = "inf" -> (IF f.neg THEN <<"-">> ELSE <<>>) \o <<"i", "n", "f">>
      [] OTHER -> (IF f.neg THEN <<"-">> ELSE <<>>) \o IntToDigits(f.ip) \o <<".">>
                    \o (IF f.fp = <<>> THEN <<"0">> ELSE f.fp)

\* str(v)
PyStr(v) ==
    CASE v.t = "None" -> <<"N", "o", "n", "e">>
      [] v.t = "str" -> v.s
      [] v.t = "int" -> (IF v.n < 0 THEN <<"-">> \o IntToDigits(0 - v.n)
                         ELSE IntToDigits(v.n))
      [] v.t = "bigint" -> <<"1", "0", "0", "0", "0", "0", "0", "0", "0", "0", "0", "0">>
      [] v.t = "float" -> FloatStr(v.f)
      [] OTHER -> <<"[", "1", "]">>

\* bool(v)
Truthy(v) ==
    CASE v.t = "None" -> FALSE
      [] v.t = "str" -> v.s # <<>>
      [] v.t = "int" -> v.n # 0
      [] v.t = "bigint" -> TRUE
      [] v.t = "float" -> ~(v.f.k = "fin" /\ v.f.ip = 0 /\ v.f.fp = <<>>)
      [] v.t = "list" -> IF "items" \in DOMAIN v THEN v.items # <<>> ELSE TRUE
      [] OTHER -> TRUE

\* float(v) for an int or a float
PyFloatOfNumber(v) ==
    CASE v.t = "int" -> Ret(Fin(v.n < 0, IF v.n < 0 THEN 0 - v.n ELSE v.n, <<>>))
      [] v.t = "bigint" -> Raise("OverflowError")
      [] OTHER -> Ret(v.f)

\* int(f) for a float: truncation toward zero
PyIntOfFloat(f) ==
    CASE f.k = "nan" -> Raise("ValueError")
      [] f.k = "inf" -> Raise("OverflowError")
      [] OTHER -> Ret(IF f.neg THEN 0 - f.ip ELSE f.ip)

\* int(v)
PyInt(v) ==
    CASE v.t = "str" -> PyIntOfStr(v.s)
      [] v.t = "int" -> Ret(v.n)
      [] v.t = "float" -> PyIntOfFloat(v.f)
      [] OTHER -> Raise("TypeError")

-----------------------------------------------------------------------------
(* The parsers of the record transformer.                                  *)

MinPlainYear == 1900
MaxPlainYear == 2100
ReiwaOffset == 2018
HeiseiOffset == 1988
ShowaOffset == 1925

(* The era markers. A kanji is one character, written here by its reading: *)
(* <rei><wa> is Reiwa, <hei><sei> Heisei, <sho><wa> Showa in kanji; <nen>  *)
(* is the year sign, <gatsu> the month sign.                               *)
ReiwaMarkers == {<<"<rei>", "<wa>">>, <<"R", "e", "i", "w", "a">>}
HeiseiMarkers == {<<"<hei>", "<sei>">>, <<"H", "e", "i", "s", "e", "i">>}
ShowaMarkers == {<<"<sho>", "<wa>">>, <<"S", "h", "o", "w", "a">>}

HasMarker(s, markers) == \E m \in markers : Contains(s, m)

\* the try block without its range test: any year int() accepts is returned
PlainYearOf_NoRangeTest(i) ==
    IF i.exc = "" THEN [exc |-> "", hit |-> TRUE, year |-> i.val]
    ELSE [exc |-> "", hit |-> FALSE, year |-> 0]

(* The try block of parse_building_year: int(year_str) and the range test. *)
(* hit: the year is returned; otherwise the era branches follow, unless an *)
(* exception other than ValueError and TypeError escapes.                  *)
PlainYearOf(i) ==
    IF i.exc = ""
    THEN [exc |-> "", hit |-> MinPlainYear <= i.val /\ i.val <= MaxPlainYear,
          year |-> i.val]
    ELSE IF i.exc \in {"ValueError", "TypeError"}
    THEN [exc |-> "", hit |-> FALSE, year |-> 0]
    ELSE [exc |-> i.exc, hit |-> FALSE, year |-> 0]

\* int() of an int beyond the float range is that int: outside [1900, 2100]
PlainYear(year_str) ==
    IF year_str.t = "bigint" THEN [exc |-> "", hit |-> FALSE, year |-> 0]
    ELSE PlainYearOf(PyInt(year_str))

(* One era branch: int(''.join(filter(str.isdigit, year_str))) plus the    *)
(* offset; int('') is a ValueError, which is passed over.                  *)
EraYear(s, offset) ==
    LET Of(digits) == IF digits = <<>> THEN None ELSE IntV(offset + DigitsToInt(digits))
    IN Of(SelectSeq(s, IsDigit))

\* lines 172-200; the era branches work on str(year_str)
ParseBuildingYear(year_str) ==
    LET EraBranches(s) ==
            IF HasMarker(s, ReiwaMarkers) THEN Ret(EraYear(s, ReiwaOffset))
            ELSE IF HasMarker(s, HeiseiMarkers) THEN Ret(EraYear(s, HeiseiOffset))
            ELSE IF HasMarker(s, ShowaMarkers) THEN Ret(EraYear(s, ShowaOffset))
            ELSE Ret(None)
        AfterPlainYear(plain) ==
            IF plain.exc # "" THEN Raise(plain.exc)
            ELSE IF plain.hit THEN Ret(IntV(plain.year))
            ELSE EraBranches(PyStr(year_str))
    IN IF ~Truthy(year_str) THEN Ret(None)
       ELSE AfterPlainYear(PlainYear(year_str))

(* lines 203-214: float(value) for an int or a float is outside the try    *)
(* block; for a str, ValueError and TypeError give None.                   *)
ParseNumeric(value) ==
    LET NumberOutcome(f) == IF f.exc = "" THEN Ret(FloatV(f.val)) ELSE Raise(f.exc)
        FloatOutcome(f) ==
            IF f.exc = "" THEN Ret(FloatV(f.val))
            ELSE IF f.exc \in {"ValueError", "TypeError"} THEN Ret(None)
            ELSE Raise(f.exc)
        ParseCleaned(cleaned) ==
            IF cleaned = <<>> THEN Ret(None) ELSE FloatOutcome(PyFloatOfStr(cleaned))
    IN IF value = None \/ value = Str(<<>>) THEN Ret(None)
       ELSE IF value.t \in {"int", "bigint", "float"}
       THEN NumberOutcome(PyFloatOfNumber(value))
       ELSE ParseCleaned(PyStrip(RemoveChar(PyStr(value), ",")))

-----------------------------------------------------------------------------
(* The arguments the parsers are called with.                              *)

NumericInputs ==
    LET Blanks == {<<>>, <<" ">>}
        NumericBodies ==
            { <<>>, <<"0">>, <<"7">>, <<"1", "2">>,
              <<"1", ",", "2", "3", "4", ",", "5", "6", "7">>,
              <<"1", ".", "5">>, <<"0", ".", "0">>, <<"1", ".", "5", "0">>,
              <<".", "5">>, <<"5", ".">>, <<"-", "5">>, <<"+", "7">>,
              <<"a", "b", "c">>, <<"1", "2", "a", "b", "c">>,
              <<"n", "a", "n">>, <<"N", "a", "N">>, <<"i", "n", "f">>,
              <<"-", "i", "n", "f">>, <<"I", "n", "f", "i", "n", "i", "t", "y">>,
              <<",">>, <<"1", ",", "2">>, <<"0", ",", "0">>, <<"1", " ", "2">>,
              <<".">>, <<"-">>, <<"1", ".", "2", ".", "3">> }
        NumericStrings == { a \o b \o c : a \in Blanks, b \in NumericBodies, c \in Blanks }
    IN { Str(s) : s \in NumericStrings }
       \cup { None, IntV(0), IntV(5), IntV(0 - 3), IntV(1234567), BigInt,
              FloatV(Fin(FALSE, 1, <<"5">>)), FloatV(Fin(FALSE, 0, <<>>)),
              FloatV(Inf(FALSE)), ListV }

YearInputs ==
    LET Blanks == {<<>>, <<" ">>}
        YearMarkers ==
            ReiwaMarkers \cup HeiseiMarkers \cup ShowaMarkers
            \cup { <<>>, <<"r", "e", "i", "w", "a">>, <<"M", "e", "i", "j", "i">>, <<"<mei>", "<ji>">> }
        YearNumerals ==
            { <<>>, <<"5">>, <<"0">>, <<"3", "0">>, <<"6", "4">>, <<"1", "8", "9", "9">>,
              <<"1", "9", "0", "0">>, <<"1", "9", "8", "7">>, <<"2", "1", "0", "0">>,
              <<"2", "1", "0", "1">> }
        YearSuffixes == { <<>>, <<"<nen>">>, <<"<nen>", "3", "<gatsu>">>, <<" ">> }
        YearStrings ==
            { m \o b \o n \o x : m \in YearMarkers, b \in Blanks, n \in YearNumerals,
                                 x \in YearSuffixes }
            \cup { <<"<rei>", "<wa>", "<gan>", "<nen>">>, <<"a", "b", "c">>, <<"<sen>", "<zen>">>,
                   <<"H", "e", "i", "s", "e", "i", " ", "2", " ", "R", "e", "i", "w", "a">>,
                   <<"<sho>", "<wa>", "6", "4", "<nen>", "<hei>", "<sei>", "1", "<nen>">> }
    IN { Str(s) : s \in YearStrings }
       \cup { None, IntV(0), IntV(5), IntV(1987), IntV(2101), BigInt, ListV }

-----------------------------------------------------------------------------
(* Each specification runs one part of the program. The variables of the  *)
(* parts it does not run rest at the values of Idle and are left unchanged *)
(* by its actions.                                                         *)

Idle(part) ==
    /\ IF part = "parse" THEN TRUE
       ELSE p_fn = "none" /\ p_in = None /\ p_out = Ret(None)
    /\ IF part = "transform" THEN TRUE
       ELSE /\ t_pc = "idle"
            /\ t_raw = None
            /\ t_args = <<None, None, None>>
            /\ t_out = Ret(None)
    /\ IF part = "hash" THEN TRUE
       ELSE /\ h_pc = "idle"
            /\ h_raw1 = None
            /\ h_raw2 = None
            /\ h1 = None
            /\ h2 = None
            /\ h_xf = None
    /\ IF part = "fetch" THEN TRUE
       ELSE /\ f_pc = "idle"
            /\ f_call = None
            /\ f_request = None
            /\ f_response = None
            /\ f_out = Ret(None)
    /\ IF part \in {"load", "run", "concurrent", "main"} THEN TRUE
       ELSE /\ prefectures = <<>>
            /\ municipalities = <<>>
            /\ transactions = <<>>
            /\ conn_status = "closed"
            /\ open_transactions = <<>>
            /\ statements = <<>>
    /\ IF part = "load" THEN TRUE
       ELSE /\ l_pc = "idle"
            /\ l_records = <<>>
            /\ l_out = Ret(None)
            /\ l_before = <<>>
            /\ l_repeat = FALSE
            /\ l_prev_ok = FALSE
    /\ IF part \in {"run", "main"} THEN TRUE
       ELSE /\ r_pc = "idle"
            /\ r_args = None
            /\ r_now = None
            /\ r_probe = None
            /\ r_units = <<>>
            /\ r_unit = None
            /\ r_quarters = <<>>
            /\ r_total_inserted = 0
            /\ r_request = None
            /\ r_requests = 0
            /\ r_waited = 0
            /\ r_gap = 0
            /\ r_probed = <<>>
            /\ r_found = None
            /\ r_calls = <<>>
            /\ r_last = None
            /\ r_feed = None
            /\ r_resumed = FALSE
    /\ IF part \in {"fx", "main"} THEN TRUE
       ELSE /\ fx_rates = {}
            /\ x_today = None
            /\ x_api = {}
            /\ x_pc = <<>>
            /\ x_todo = <<>>
            /\ x_batch = <<>>
            /\ x_fetch = <<>>
            /\ x_seen = <<>>
            /\ x_held = <<>>
            /\ x_applied = <<>>
    /\ IF part = "concurrent" THEN TRUE
       ELSE /\ c_pc = <<>>
            /\ c_records = <<>>
            /\ c_values = <<>>
            /\ c_held = <<>>
            /\ c_rowcount = <<>>
            /\ c_out = <<>>
    /\ IF part = "main" THEN TRUE
       ELSE /\ m_pc = "off"
            /\ m_api_key = TRUE
            /\ m_fx_only = FALSE

OthersUnchanged(part) ==
    /\ IF part = "parse" THEN TRUE ELSE UNCHANGED parseVars
    /\ IF part = "transform" THEN TRUE ELSE UNCHANGED transformVars
    /\ IF part = "hash" THEN TRUE ELSE UNCHANGED hashVars
    /\ IF part = "fetch" THEN TRUE ELSE UNCHANGED fetchVars
    /\ IF part \in {"load", "run", "concurrent", "main"} THEN TRUE ELSE UNCHANGED storeVars
    /\ IF part = "load" THEN TRUE ELSE UNCHANGED loadVars
    /\ IF part \in {"run", "main"} THEN TRUE ELSE UNCHANGED runVars
    /\ IF part \in {"fx", "main"} THEN TRUE ELSE UNCHANGED fxVars
    /\ IF part = "concurrent" THEN TRUE ELSE UNCHANGED concurrentVars
    /\ IF part = "main" THEN TRUE ELSE UNCHANGED mainVars

-----------------------------------------------------------------------------
(* The parsers called on their own.                                        *)

ParseInit ==
    /\ p_fn = "none"
    /\ p_in = None
    /\ p_out = Ret(None)
    /\ Idle("parse")

CallParseNumeric ==
    \E v \in NumericInputs :
        /\ p_fn = "none"
        /\ p_fn' = "parse_numeric"
        /\ p_in' = v
        /\ p_out' = ParseNumeric(v)
        /\ OthersUnchanged("parse")

CallParseBuildingYear ==
    \E v \in YearInputs :
        /\ p_fn = "none"
        /\ p_fn' = "parse_building_year"
        /\ p_in' = v
        /\ p_out' = ParseBuildingYear(v)
        /\ OthersUnchanged("parse")

\* the caller has taken the result; the next call is a new one
ParseReturn ==
    /\ p_fn # "none"
    /\ p_fn' = "none"
    /\ p_in' = None
    /\ p_out' = Ret(None)
    /\ OthersUnchanged("parse")

ParseNext == CallParseNumeric \/ CallParseBuildingYear \/ ParseReturn

-----------------------------------------------------------------------------
(* What the parsers are specified to return, written from the statement of *)
(* the properties and not from the code.                                   *)

\* an optional sign, digits, an optional point and fraction, at least one digit
IsDecimalBody(body, dot) ==
    /\ AllDigits(IF dot = 0 THEN body ELSE SubSeq(body, 1, dot - 1))
    /\ AllDigits(IF dot = 0 THEN <<>> ELSE SubSeq(body, dot + 1, Len(body)))
    /\ Len(body) > (IF dot = 0 THEN 0 ELSE 1)

Unsigned(s) == IF s # <<>> /\ Head(s) \in {"+", "-"} THEN Tail(s) ELSE s

IsDecimalNumeral(s) == IsDecimalBody(Unsigned(s), IndexOf(Unsigned(s), "."))

DecimalBodyValue(neg, body, dot) ==
    MkFin(neg,
          IF dot = 0 THEN body ELSE SubSeq(body, 1, dot - 1),
          IF dot = 0 THEN <<>> ELSE SubSeq(body, dot + 1, Len(body)))

DecimalValue(s) ==
    DecimalBodyValue(s # <<>> /\ Head(s) = "-", Unsigned(s), IndexOf(Unsigned(s), "."))

ExpectedNumeric(v) ==
    CASE v.t = "int" ->
            FloatV(Fin(v.n < 0, IF v.n < 0 THEN 0 - v.n ELSE v.n, <<>>))
      [] v.t = "float" -> v
      [] v.t = "str" ->
            LET cleaned == PyStrip(RemoveChar(v.s, ","))
            IN IF IsDecimalNumeral(cleaned) THEN FloatV(DecimalValue(cleaned))
               ELSE None
      [] OTHER -> None

\* the eras whose marker the text carries
ErasOf(s) ==
    { e \in {"Reiwa", "Heisei", "Showa"} :
        HasMarker(s, CASE e = "Reiwa" -> ReiwaMarkers
                       [] e = "Heisei" -> HeiseiMarkers
                       [] OTHER -> ShowaMarkers) }

DocumentedOffset(e) ==
    CASE e = "Reiwa" -> 2018 [] e = "Heisei" -> 1988 [] OTHER -> 1925

DigitPositions(s) == { i \in 1..Len(s) : IsDigit(s[i]) }

\* the text holds exactly one numeral: its digits are next to each other
OneNumeral(s) ==
    /\ DigitPositions(s) # {}
    /\ \A i, j \in DigitPositions(s) :
          \A k \in i..j : k \in DigitPositions(s)

TheNumeral(s) == DigitsToInt(SelectSeq(s, IsDigit))

\* a plain year: an int, or a str of digits (blanks around it allowed)
IsPlainYearIn(v, lo, hi) ==
    \/ v.t = "int" /\ lo <= v.n /\ v.n <= hi
    \/ /\ v.t = "str"
       /\ PyStrip(v.s) # <<>>
       /\ AllDigits(PyStrip(v.s))
       /\ lo <= DigitsToInt(PyStrip(v.s))
       /\ DigitsToInt(PyStrip(v.s)) <= hi

IsEmptyInput(v) == v = None \/ v = Str(<<>>)

-----------------------------------------------------------------------------
(* C9: parse_numeric never raises; it returns the float value of a typed   *)
(* number, the numeric value of a string once thousands separators and     *)
(* surrounding whitespace are removed, and null for None, the empty        *)
(* string, an all-whitespace string and any string that is not a number.   *)
C9_ParseNumericContract ==
    p_fn = "parse_numeric" =>
        /\ p_out.exc = ""
        /\ p_out.val = ExpectedNumeric(p_in)

(* C10: parse_building_year returns the year itself for a plain Gregorian  *)
(* year in [1900, 2100]; otherwise, for a string carrying the marker of    *)
(* one era and one numeral, that era's offset plus the numeral; and null   *)
(* for an empty input, for a text with no marker, and for a marker without *)
(* digits.                                                                 *)
C10_BuildingYear ==
    p_fn = "parse_building_year" =>
        LET s == PyStr(p_in)
            plain == IsPlainYearIn(p_in, 1900, 2100)
        IN /\ p_out.exc = ""
           /\ IsEmptyInput(p_in) => p_out.val = None
           /\ plain => p_out.val = (IF p_in.t = "int" THEN p_in
                                    ELSE IntV(DigitsToInt(PyStrip(p_in.s))))
           /\ (~plain /\ p_in.t = "str" /\ Cardinality(ErasOf(s)) = 1 /\ OneNumeral(s)) =>
                 p_out.val = IntV(DocumentedOffset(CHOOSE e \in ErasOf(s) : TRUE)
                                  + TheNumeral(s))
           /\ (~plain /\ ErasOf(s) = {}) => p_out.val = None
           /\ (ErasOf(s) # {} /\ DigitPositions(s) = {}) => p_out.val = None

\* Reiwa 5 in kanji has been resolved to 2023
C10_Witness ==
    /\ p_fn = "parse_building_year"
    /\ p_in = Str(<<"<rei>", "<wa>", "5", "<nen>">>)
    /\ p_out = Ret(IntV(2023))

-----------------------------------------------------------------------------
(* Raw records: the key/value objects of the API's "data" list. A raw      *)
(* record maps every field name the pipeline reads to its value, or to     *)
(* Absent when the object has no such key.                                 *)

Absent == [t |-> "absent"]

KeyFields ==
    <<"MunicipalityCode", "DistrictName", "TradePrice", "Area", "Period",
      "BuildingYear", "Type">>

NumericFields ==
    {"TradePrice", "UnitPrice", "Area", "TotalFloorArea", "Frontage", "Breadth",
     "CoverageRatio", "FloorAreaRatio"}

TextFields ==
    {"DistrictName", "Period", "Municipality", "FloorPlan", "Structure",
     "LandShape", "Direction", "Classification", "CityPlanning", "Renovation",
     "Remarks"}

RawFields ==
    NumericFields \cup TextFields
    \cup {"MunicipalityCode", "BuildingYear", "Type", "PriceCategory"}

EmptyRecord == [k \in RawFields |-> Absent]

\* record.get(k)
Get(record, k) == IF record[k] = Absent THEN None ELSE record[k]

\* record.get(k, default)
GetOr(record, k, default) == IF record[k] = Absent THEN default ELSE record[k]

-----------------------------------------------------------------------------
(* The content hash.                                                       *)

RECURSIVE JoinStrs(_, _)
\* sep.join(strs)
JoinStrs(strs, sep) ==
    IF strs = <<>> THEN <<>>
    ELSE IF Len(strs) = 1 THEN strs[1]
    ELSE strs[1] \o sep \o JoinStrs(Tail(strs), sep)

KeyString(record) ==
    JoinStrs([i \in 1..Len(KeyFields) |-> PyStr(Get(record, KeyFields[i]))], <<"|">>)

(* hashlib.sha256(key_string.encode()).hexdigest()[:32]: the digest is     *)
(* taken to be free of collisions, so a digest is identified by the text   *)
(* it was computed from; two hashes are equal exactly when the key strings *)
(* are.                                                                    *)
Sha256Hex32(text) == [sha256 |-> text]

\* a hash over the first six key fields only
GenerateRecordHash_DropsType(record) ==
    Sha256Hex32(JoinStrs([i \in 1..(Len(KeyFields) - 1) |->
                              PyStr(Get(record, KeyFields[i]))], <<"|">>))

\* a hash that also covers the remarks
GenerateRecordHash_WithRemarks(record) ==
    Sha256Hex32(KeyString(record) \o <<"|">> \o PyStr(Get(record, "Remarks")))

GenerateRecordHash(record) == Sha256Hex32(KeyString(record))

-----------------------------------------------------------------------------
(* The record transformer.                                                 *)

PROPERTY_TYPE_MAP ==
    { <<<<"P", "r", "e", "-", "o", "w", "n", "e", "d", " ", "C", "o", "n", "d", "o", "m", "i", "n", "i", "u", "m", "s">>,
        1>>,
      <<<<"P", "r", "e", "-", "o", "w", "n", "e", "d", " ", "C", "o", "n", "d", "o", "m", "i", "n", "i", "u", "m", "s", ",", " ", "e", "t", "c", ".">>,
        1>>,
      <<<<"R", "e", "s", "i", "d", "e", "n", "t", "i", "a", "l", " ", "L", "a", "n", "d">>,
        2>>,
      <<<<"R", "e", "s", "i", "d", "e", "n", "t", "i", "a", "l", " ", "L", "a", "n", "d", "(", "L", "a", "n", "d", " ", "O", "n", "l", "y", ")">>,
        2>>,
      <<<<"R", "e", "s", "i", "d", "e", "n", "t", "i", "a", "l", " ", "L", "a", "n", "d", " ", "a", "n", "d", " ", "B", "u", "i", "l", "d", "i", "n", "g">>,
        3>>,
      <<<<"R", "e", "s", "i", "d", "e", "n", "t", "i", "a", "l", " ", "L", "a", "n", "d", "(", "L", "a", "n", "d", " ", "a", "n", "d", " ", "B", "u", "i", "l", "d", "i", "n", "g", ")">>,
        3>>,
      <<<<"A", "g", "r", "i", "c", "u", "l", "t", "u", "r", "a", "l", " ", "L", "a", "n", "d">>,
        4>>,
      <<<<"F", "o", "r", "e", "s", "t", " ", "L", "a", "n", "d">>, 5>>,
      <<<<"P", "r", "e", "-", "o", "w", "n", "e", "d", " ", "H", "o", "u", "s", "e">>,
        6>>,
      <<<<"O", "f", "f", "i", "c", "e">>, 7>>,
      <<<<"S", "h", "o", "p">>, 8>>,
      <<<<"W", "a", "r", "e", "h", "o", "u", "s", "e">>, 9>>,
      <<<<"F", "a", "c", "t", "o", "r", "y">>, 10>> }

\* PROPERTY_TYPE_MAP.get(label): an unhashable key is a TypeError
PropertyTypeId(label) ==
    IF label.t = "list" THEN Raise("TypeError")
    ELSE IF label.t = "str" /\ \E e \in PROPERTY_TYPE_MAP : e[1] = label.s
    THEN Ret(IntV((CHOOSE e \in PROPERTY_TYPE_MAP : e[1] = label.s)[2]))
    ELSE Ret(None)

MuniCodeLen == 5

\* len(v)
PyLen(v) ==
    CASE v.t = "str" -> Ret(Len(v.s))
      [] v.t = "list" -> Ret(1)
      [] OTHER -> Raise("TypeError")

\* lines 239-243: muni_code if muni_code and len(muni_code) == 5 else None
MunicipalityCodeOf(record) ==
    LET Checked(muni_code, len) ==
            IF len.exc # "" THEN Raise(len.exc)
            ELSE IF len.val = MuniCodeLen THEN Ret(muni_code)
            ELSE Ret(None)
        Of(muni_code) ==
            IF ~Truthy(muni_code) THEN Ret(None)
            ELSE Checked(muni_code, PyLen(muni_code))
    IN Of(GetOr(record, "MunicipalityCode", Str(<<>>)))

\* line 260: record.get("PriceCategory", "01")[:2] if record.get("PriceCategory") else "01"
PriceClassificationOf(record) ==
    LET Of(v) ==
            IF ~Truthy(v) THEN Ret(Str(<<"0", "1">>))
            ELSE IF v.t = "str"
            THEN Ret(Str(SubSeq(v.s, 1, IF Len(v.s) < 2 THEN Len(v.s) ELSE 2)))
            ELSE IF v.t = "list" THEN Ret(v)
            ELSE Raise("TypeError")
    IN Of(Get(record, "PriceCategory"))

\* int(x) if x else None, for x returned by parse_numeric
IntOrNone(x) ==
    LET Outcome(i) == IF i.exc = "" THEN Ret(IntV(i.val)) ELSE Raise(i.exc)
    IN IF ~Truthy(x) THEN Ret(None) ELSE Outcome(PyIntOfFloat(x.f))

\* the value a step that did not raise has produced
ValOr(step) == IF step.exc = "" THEN step.val ELSE None

\* the first exception of a sequence of steps, "" when none raised
FirstExc(steps) ==
    IF \A i \in 1..Len(steps) : steps[i].exc = "" THEN ""
    ELSE steps[CHOOSE i \in 1..Len(steps) :
                  steps[i].exc # "" /\ \A j \in 1..(i - 1) : steps[j].exc = ""].exc

(* lines 231-287. Steps: the values transform_record computes, in the    *)
(* order it computes them (lines 239-256, then the entries of the returned *)
(* dict that compute); Ints: int(x) if x else None for the four columns    *)
(* stored as integers; Row: the returned dict. The first step that raises  *)
(* ends the call.                                                          *)
TransformRecord(record, prefecture_code, year, quarter) ==
    LET Steps ==
            [municipality_code |-> MunicipalityCodeOf(record),
             property_type_id |-> PropertyTypeId(GetOr(record, "Type", Str(<<>>))),
             trade_price |-> ParseNumeric(Get(record, "TradePrice")),
             unit_price |-> ParseNumeric(Get(record, "UnitPrice")),
             area_m2 |-> ParseNumeric(Get(record, "Area")),
             total_floor_area |-> ParseNumeric(Get(record, "TotalFloorArea")),
             frontage |-> ParseNumeric(Get(record, "Frontage")),
             road_width |-> ParseNumeric(Get(record, "Breadth")),
             coverage_ratio |-> ParseNumeric(Get(record, "CoverageRatio")),
             floor_area_ratio |-> ParseNumeric(Get(record, "FloorAreaRatio")),
             building_year |-> ParseBuildingYear(Get(record, "BuildingYear")),
             price_classification |-> PriceClassificationOf(record)]
        Ints(st) ==
            [trade_price |-> IntOrNone(ValOr(st.trade_price)),
             unit_price |-> IntOrNone(ValOr(st.unit_price)),
             coverage_ratio |-> IntOrNone(ValOr(st.coverage_ratio)),
             floor_area_ratio |-> IntOrNone(ValOr(st.floor_area_ratio))]
        Order(st, ints) ==
            <<st.municipality_code, st.property_type_id, st.trade_price, st.unit_price,
              st.area_m2, st.total_floor_area, st.frontage, st.road_width,
              st.coverage_ratio, st.floor_area_ratio, st.building_year,
              st.price_classification, ints.trade_price, ints.unit_price,
              ints.coverage_ratio, ints.floor_area_ratio>>
        Row(source_hash, st, ints) ==
            [source_hash |-> source_hash,
             price_classification |-> st.price_classification.val,
             prefecture_code |-> prefecture_code,
             municipality_code |-> st.municipality_code.val,
             municipality_name |-> GetOr(record, "Municipality", Str(<<>>)),
             district_name |-> Get(record, "DistrictName"),
             property_type_id |-> st.property_type_id.val,
             property_type_raw |-> GetOr(record, "Type", Str(<<>>)),
             trade_price |-> ints.trade_price.val,
             unit_price |-> ints.unit_price.val,
             area_m2 |-> st.area_m2.val,
             total_floor_area_m2 |-> st.total_floor_area.val,
             floor_plan |-> Get(record, "FloorPlan"),
             building_year |-> st.building_year.val,
             structure |-> Get(record, "Structure"),
             land_shape |-> Get(record, "LandShape"),
             frontage_m |-> st.frontage.val,
             road_direction |-> Get(record, "Direction"),
             road_type |-> Get(record, "Classification"),
             road_width_m |-> st.road_width.val,
             city_planning |-> Get(record, "CityPlanning"),
             coverage_ratio |-> ints.coverage_ratio.val,
             floor_area_ratio |-> ints.floor_area_ratio.val,
             transaction_year |-> year,
             transaction_quarter |-> quarter,
             transaction_period |-> Get(record, "Period"),
             renovation |-> Get(record, "Renovation"),
             remarks |-> Get(record, "Remarks")]
        Outcome(exc, row) == IF exc # "" THEN Raise(exc) ELSE Ret(row)
        With(source_hash, st, ints) ==
            Outcome(FirstExc(Order(st, ints)), Row(source_hash, st, ints))
        From(source_hash, st) == With(source_hash, st, Ints(st))
    IN From(GenerateRecordHash(record), Steps)

-----------------------------------------------------------------------------
(* The raw records the transformer and the hash are run on: every record   *)
(* with at most a bounded number of fields present, each present field     *)
(* taking the values a JSON object can give it.                            *)

MaxRawFields == 2
MaxHashFields == 2

TransformVals(k) ==
    LET NumericFieldVals ==
            { None, Str(<<>>), Str(<<" ">>), Str(<<"1", ",", "2", "0", "0">>), Str(<<"0">>), Str(<<"2", ".", "5">>), Str(<<"a", "b", "c">>),
              Str(<<"n", "a", "n">>), Str(<<"i", "n", "f">>), IntV(0), IntV(5),
              FloatV(Fin(FALSE, 1, <<"5">>)), BigInt, ListV }
        BuildingYearVals ==
            { None, Str(<<>>), Str(<<"1", "9", "8", "7">>), Str(<<"<rei>", "<wa>", "5", "<nen>">>),
              Str(<<"a", "b", "c">>), IntV(1987), ListV }
        MunicipalityCodeVals ==
            { None, Str(<<>>), Str(<<"1", "3", "1", "0", "1">>), Str(<<"1", "3", "1", "0">>), IntV(13101), ListV }
        TypeVals ==
            { None, Str(<<>>), Str(<<"O", "f", "f", "i", "c", "e">>), Str(<<"C", "a", "s", "t", "l", "e">>), IntV(7), ListV }
        PriceCategoryVals ==
            { None, Str(<<>>), Str(<<"0", "1">>), Str(<<"0", "1", "2", "3">>), IntV(1), ListV }
        TextVals == { None, Str(<<"a">>) }
    IN CASE k \in NumericFields -> NumericFieldVals
         [] k = "BuildingYear" -> BuildingYearVals
         [] k = "MunicipalityCode" -> MunicipalityCodeVals
         [] k = "Type" -> TypeVals
         [] k = "PriceCategory" -> PriceCategoryVals
         [] OTHER -> TextVals

RECURSIVE TransformRecordsUpTo(_)
\* the raw records with at most n fields present
TransformRecordsUpTo(n) ==
    IF n = 0 THEN {EmptyRecord}
    ELSE LET smaller == TransformRecordsUpTo(n - 1)
         IN smaller \cup
            UNION { { [r EXCEPT ![k] = v] : v \in TransformVals(k), r \in smaller } :
                    k \in RawFields }

\* (prefecture_code, year, quarter)
TransformArgs ==
    { <<p, IntV(2023), q>> : p \in {Str(<<"1", "3">>), Str(<<"1", "4">>)}, q \in {None, IntV(1)} }

\* key field values: the text None, and texts without and with the delimiter
HashKeyVals == { Str(<<"N", "o", "n", "e">>), Str(<<"a">>), Str(<<"a", "|", "a">>) }

HashFields == { KeyFields[i] : i \in 1..Len(KeyFields) } \cup {"Remarks"}

HashVals(k) == IF k = "Remarks" THEN {Str(<<"a">>)} ELSE HashKeyVals

RECURSIVE HashRecordsUpTo(_)
HashRecordsUpTo(n) ==
    IF n = 0 THEN {EmptyRecord}
    ELSE LET smaller == HashRecordsUpTo(n - 1)
         IN smaller \cup
            UNION { { [r EXCEPT ![k] = v] : v \in HashVals(k), r \in smaller } :
                    k \in HashFields }

\* the record with up to two of its fields overwritten or removed
HashVariants(record) ==
    { [record EXCEPT ![k1] = v1, ![k2] = v2] :
        k1 \in HashFields, k2 \in HashFields,
        v1 \in HashKeyVals \cup {Absent}, v2 \in HashKeyVals \cup {Absent} }

-----------------------------------------------------------------------------
(* transform_record called on one raw record.                              *)

TransformInit ==
    /\ t_pc = "call"
    /\ t_raw \in TransformRecordsUpTo(MaxRawFields)
    /\ t_args \in TransformArgs
    /\ t_out = Ret(None)
    /\ Idle("transform")

DoTransform ==
    /\ t_pc = "call"
    /\ t_pc' = "done"
    /\ t_out' = TransformRecord(t_raw, t_args[1], t_args[2], t_args[3])
    /\ UNCHANGED <<t_raw, t_args>>
    /\ OthersUnchanged("transform")

TransformNext == DoTransform

-----------------------------------------------------------------------------
(* The hash taken of two raw records, by generate_record_hash and, for the *)
(* first of them, by transform_record. The second record is the first with *)
(* up to two fields changed.                                               *)

HashInit ==
    /\ h_pc = "pick"
    /\ h_raw1 \in HashRecordsUpTo(MaxHashFields)
    /\ h_raw2 = h_raw1
    /\ h1 = None
    /\ h2 = None
    /\ h_xf = None
    /\ Idle("hash")

PickSecond ==
    /\ h_pc = "pick"
    /\ h_pc' = "call"
    /\ h_raw2' \in HashVariants(h_raw1)
    /\ UNCHANGED <<h_raw1, h1, h2, h_xf>>
    /\ OthersUnchanged("hash")

\* the source_hash of the record transform_record returned
SourceHashOf(out) == IF out.exc = "" THEN out.val.source_hash ELSE None

DoHash ==
    /\ h_pc = "call"
    /\ h_pc' = "done"
    /\ h1' = GenerateRecordHash(h_raw1)
    /\ h2' = GenerateRecordHash(h_raw2)
    /\ \E a \in TransformArgs :
          h_xf' = SourceHashOf(TransformRecord(h_raw1, a[1], a[2], a[3]))
    /\ UNCHANGED <<h_raw1, h_raw2>>
    /\ OthersUnchanged("hash")

HashNext == PickSecond \/ DoHash

-----------------------------------------------------------------------------
(* Properties of the hash and of the transformer.                          *)

\* the two records have the same value in every key field
SameKey(r1, r2) ==
    \A i \in 1..Len(KeyFields) : Get(r1, KeyFields[i]) = Get(r2, KeyFields[i])

(* C4: two raw records that differ in at least one of the seven key fields *)
(* get different digest inputs, hence different hashes, whatever the field *)
(* values: absent, the text None, texts holding the delimiter.             *)
C4_KeySensitivity ==
    h_pc = "done" => (~SameKey(h_raw1, h_raw2) => h1 # h2)

(* C5: the hash depends on the seven key fields only: two raw records that *)
(* agree on them get the same hash whatever their other fields are, and    *)
(* the source_hash transform_record gives is generate_record_hash of the   *)
(* raw record, whatever prefecture_code, year and quarter it is given.     *)
C5_KeyOnly ==
    h_pc = "done" =>
        /\ SameKey(h_raw1, h_raw2) => h1 = h2
        /\ h_xf = h1

\* two records that differ in the remarks only have been given one hash
C5_Witness ==
    /\ h_pc = "done"
    /\ SameKey(h_raw1, h_raw2)
    /\ Get(h_raw1, "DistrictName") # None
    /\ Get(h_raw1, "Remarks") # Get(h_raw2, "Remarks")
    /\ h1 = h2
    /\ h_xf = h1

\* the column of a transformed record that a numeric raw field is stored in
ColumnOf(row, k) ==
    CASE k = "TradePrice" -> row.trade_price
      [] k = "UnitPrice" -> row.unit_price
      [] k = "Area" -> row.area_m2
      [] k = "TotalFloorArea" -> row.total_floor_area_m2
      [] k = "Frontage" -> row.frontage_m
      [] k = "Breadth" -> row.road_width_m
      [] k = "CoverageRatio" -> row.coverage_ratio
      [] OTHER -> row.floor_area_ratio

(* C8: transform_record is total: whatever fields are absent and whatever  *)
(* the type or content of a field value, it returns a record and does not  *)
(* raise; a numeric field that holds no number is null in the output.      *)
C8_TransformTotal ==
    t_pc = "done" =>
        /\ t_out.exc = ""
        /\ \A k \in NumericFields :
              ExpectedNumeric(Get(t_raw, k)) = None => ColumnOf(t_out.val, k) = None

-----------------------------------------------------------------------------
(* MLITApiClient.get_transactions.                                         *)

\* a list with its items, a dict with its entries (a function from its keys)
PyList(items) == [t |-> "list", items |-> items]
PyDict(entries) == [t |-> "dict", entries |-> entries]

\* lines 118-130: the query parameters; quarter, city and station only if truthy
RequestParams(call) ==
    [k \in {"year", "area", "priceClassification", "language"}
           \cup { o \in {"quarter", "city", "station"} : Truthy(call[o]) } |->
        CASE k = "year" -> call.year
          [] k = "area" -> call.area
          [] k = "priceClassification" -> call.price_classification
          [] k = "language" -> call.language
          [] OTHER -> call[k]]

(* What session.get gives: a network failure (a RequestException) or a     *)
(* response with a status code and a body. The body is not JSON, or JSON   *)
(* decoded to a Python value.                                              *)
NetworkFailure(e) == [net |-> e]
Response(status, body) == [net |-> "", status |-> status, body |-> body]
NotJson == [json |-> FALSE]
Json(v) == [json |-> TRUE, value |-> v]

\* lines 131-143: the outcomes of the try block for a response
GetTransactionsOutcomes(response) ==
    LET \* line 136
        UnavailableStatuses == {400, 404}
        \* resp.raise_for_status(): an HTTPError for a 4xx or 5xx status
        RaisesForStatus(status) == 400 <= status /\ status < 600
        (* resp.json(): a body that is not JSON raises JSONDecodeError, which is a *)
        (* RequestException in requests 2.27 and later and a plain ValueError      *)
        (* before; the version installed decides.                                  *)
        JsonFailures == {"RequestException", "ValueError"}
        \* line 143: a RequestException is raised again as Exception("API request failed")
        Reraised(e) == IF e = "RequestException" THEN Raise("Exception") ELSE Raise(e)
        \* line 141: data.get("data", [])
        DataOf(data) ==
            IF data.t # "dict" THEN Raise("AttributeError")
            ELSE IF "data" \in DOMAIN data.entries THEN Ret(data.entries["data"])
            ELSE Ret(PyList(<<>>))
    IN IF response.net # "" THEN { Reraised("RequestException") }
       ELSE IF response.status \in UnavailableStatuses THEN { Ret(None) }
       ELSE IF RaisesForStatus(response.status) THEN { Reraised("RequestException") }
       ELSE IF ~response.body.json THEN { Reraised(e) : e \in JsonFailures }
       ELSE { DataOf(response.body.value) }

-----------------------------------------------------------------------------
(* The calls made and the responses received.                              *)

FetchCall(year, area, quarter) ==
    [year |-> year, area |-> area, quarter |-> quarter, city |-> None,
     station |-> None, price_classification |-> Str(<<"0", "1">>),
     language |-> Str(<<"e", "n">>)]

FetchCalls ==
    { FetchCall(IntV(2023), Str(<<"1", "3">>), q) : q \in {None, IntV(0), IntV(1)} }

Responses ==
    LET Statuses == {200, 201, 204, 304, 400, 401, 403, 404, 429, 500, 503}
        NetworkFailures == {"ConnectionError", "Timeout"}
        \* two raw records as the API sends them
        UpstreamRecords ==
            { [EmptyRecord EXCEPT !["DistrictName"] = Str(<<"a">>)],
              [EmptyRecord EXCEPT !["DistrictName"] = Str(<<"b">>),
                                  !["TradePrice"] = Str(<<"1", "0", "0">>)] }
        UpstreamLists ==
            { <<>> } \cup { <<r>> : r \in UpstreamRecords }
                     \cup { <<r1, r2>> : r1 \in UpstreamRecords, r2 \in UpstreamRecords }
        Bodies ==
            { NotJson, Json(None), Json(Str(<<"o", "k">>)), Json(PyList(<<>>)),
              Json(PyDict(<<>>)),
              Json(PyDict([k \in {"message"} |-> Str(<<"o", "k">>)])),
              Json(PyDict([k \in {"data"} |-> None])),
              Json(PyDict([k \in {"data"} |-> Str(<<"o", "k">>)])) }
            \cup { Json(PyDict([k \in {"data"} |-> PyList(l)])) : l \in UpstreamLists }
        \* a 204 and a 304 response carry no body
        BodilessStatuses == {204, 304}
    IN { NetworkFailure(e) : e \in NetworkFailures }
       \cup { Response(s, b) : s \in Statuses \ BodilessStatuses, b \in Bodies }
       \cup { Response(s, NotJson) : s \in BodilessStatuses }

-----------------------------------------------------------------------------
(* get_transactions called on its own.                                     *)

FetchInit ==
    /\ f_pc = "call"
    /\ f_call \in FetchCalls
    /\ f_request = None
    /\ f_response = None
    /\ f_out = Ret(None)
    /\ Idle("fetch")

GetTransactions ==
    \E response \in Responses :
        /\ f_pc = "call"
        /\ f_pc' = "done"
        /\ f_request' = RequestParams(f_call)
        /\ f_response' = response
        /\ f_out' \in GetTransactionsOutcomes(response)
        /\ UNCHANGED f_call
        /\ OthersUnchanged("fetch")

\* the caller has taken the outcome; the next call is a new one
FetchReturn ==
    /\ f_pc = "done"
    /\ f_pc' = "call"
    /\ f_call' \in FetchCalls
    /\ f_request' = None
    /\ f_response' = None
    /\ f_out' = Ret(None)
    /\ OthersUnchanged("fetch")

FetchNext == GetTransactions \/ FetchReturn

-----------------------------------------------------------------------------
(* Properties of get_transactions.                                         *)

IsSuccessStatus(status) == 200 <= status /\ status < 300

IsListOfRecords(v) == v.t = "list" /\ "items" \in DOMAIN v

(* C6: a 400 or 404 response gives None and no exception; every other      *)
(* response outside 2xx and every network failure gives a raised failure;  *)
(* a 2xx response never gives None: what get_transactions returns for it   *)
(* is a list of records, possibly empty.                                   *)
C6_Classification ==
    f_pc = "done" =>
        IF f_response.net # "" THEN f_out.exc # ""
        ELSE IF f_response.status \in {400, 404} THEN f_out = Ret(None)
        ELSE IF ~IsSuccessStatus(f_response.status) THEN f_out.exc # ""
        ELSE f_out # Ret(None) /\ (f_out.exc = "" => IsListOfRecords(f_out.val))

-----------------------------------------------------------------------------
(* The store and the loader. A table is a function from the values of its  *)
(* unique column to its rows. A run of statements on the connection has    *)
(* the committed tables (db), the tables as the open transaction sees them *)
(* (open), the statements and commits sent, the exception raised if any,   *)
(* and the rowcount of the cursor. Nothing in the program rolls back or    *)
(* sets autocommit: the rows a statement inserted stay in the connection's *)
(* open transaction until a commit, a failed statement or the close.       *)

EmptyTable == <<>>

Put(table, key, row) ==
    [k \in DOMAIN table \cup {key} |-> IF k = key THEN row ELSE table[k]]

Db(prefs, munis, txs, conn, open_txs) ==
    [prefectures |-> prefs, municipalities |-> munis, transactions |-> txs,
     conn |-> conn, open_transactions |-> open_txs]

Start(db) ==
    [db |-> db,
     open |-> [prefectures |-> db.prefectures,
               municipalities |-> db.municipalities,
               transactions |-> db.open_transactions],
     sent |-> 0, log |-> <<>>, exc |-> "", rowcount |-> -1]

\* the store and the connection as a run of statements leaves them
After(run) == [run.db EXCEPT !.open_transactions = run.open.transactions]

(* What psycopg2 can write into a statement. A str holding a NUL character *)
(* and a dict have no SQL literal: the statement is not sent and the       *)
(* transaction stays as it was.                                            *)
Adaptable(v) ==
    IF "t" \notin DOMAIN v THEN TRUE   \* a hexdigest
    ELSE CASE v.t = "str" -> \A i \in 1..Len(v.s) : v.s[i] # "<nul>"
           [] v.t = "dict" -> FALSE
           [] OTHER -> TRUE

NotAdapted(run) == [run EXCEPT !.exc = "ValueError"]

(* A statement fails when the connection's transaction has failed before   *)
(* (nothing in the program rolls back), and a statement or commit fails    *)
(* when the database refuses or loses it: the fault-th one sent does.      *)
OperationExc(run, fault) ==
    IF run.db.conn = "aborted" THEN "InFailedSqlTransaction"
    ELSE IF run.sent + 1 = fault THEN "DatabaseError"
    ELSE ""

\* the exception leaves the transaction failed and its changes invisible
Failed(run, exc) ==
    [run EXCEPT !.exc = exc, !.sent = @ + 1, !.db.conn = "aborted",
                !.log = Append(@, [op |-> "failed"]),
                !.open = [prefectures |-> run.db.prefectures,
                          municipalities |-> run.db.municipalities,
                          transactions |-> run.db.transactions]]

\* conn.commit()
Commit(run, fault) ==
    IF run.exc # "" THEN run
    ELSE IF OperationExc(run, fault) # "" THEN Failed(run, OperationExc(run, fault))
    ELSE [run EXCEPT !.sent = @ + 1,
                     !.log = Append(@, [op |-> "commit"]),
                     !.db.prefectures = run.open.prefectures,
                     !.db.municipalities = run.open.municipalities,
                     !.db.transactions = run.open.transactions]

\* lines 295-300: INSERT INTO prefectures ... ON CONFLICT (code) DO NOTHING
UpsertPrefecture(run, code, name_en, fault) ==
    IF OperationExc(run, fault) # "" THEN Failed(run, OperationExc(run, fault))
    ELSE IF code \in DOMAIN run.open.prefectures
    THEN [run EXCEPT !.sent = @ + 1, !.rowcount = 0,
                     !.log = Append(@, [op |-> "prefectures", code |-> code])]
    ELSE [run EXCEPT !.sent = @ + 1, !.rowcount = 1,
                     !.log = Append(@, [op |-> "prefectures", code |-> code]),
                     !.open.prefectures =
                         Put(@, code, [code |-> code, name_ja |-> name_en,
                                       name_en |-> name_en])]

\* lines 294-301
EnsurePrefectureExists(run, code, name_en, fault) ==
    Commit(UpsertPrefecture(run, code, name_en, fault), fault)

\* lines 307-312: INSERT INTO municipalities ... ON CONFLICT (code) DO NOTHING
UpsertMunicipality(run, code, prefecture_code, name, fault) ==
    IF ~Adaptable(code) \/ ~Adaptable(name) THEN NotAdapted(run)
    ELSE IF OperationExc(run, fault) # "" THEN Failed(run, OperationExc(run, fault))
    ELSE IF code \in DOMAIN run.open.municipalities
    THEN [run EXCEPT !.sent = @ + 1, !.rowcount = 0,
                     !.log = Append(@, [op |-> "municipalities", code |-> code])]
    ELSE [run EXCEPT !.sent = @ + 1, !.rowcount = 1,
                     !.log = Append(@, [op |-> "municipalities", code |-> code]),
                     !.open.municipalities =
                         Put(@, code, [code |-> code,
                                       prefecture_code |-> prefecture_code,
                                       name_ja |-> name, name_en |-> name])]

\* the upsert of line 308 left without the commit of line 313
EnsureMunicipalityExists_Uncommitted(run, code, prefecture_code, name, fault) ==
    IF ~Truthy(code) \/ Len(code.s) # MuniCodeLen THEN run
    ELSE UpsertMunicipality(run, code, prefecture_code, name, fault)

\* lines 304-313; code is a str when insert_transactions calls it
EnsureMunicipalityExists(run, code, prefecture_code, name, fault) ==
    IF ~Truthy(code) \/ Len(code.s) # MuniCodeLen THEN run
    ELSE Commit(UpsertMunicipality(run, code, prefecture_code, name, fault), fault)

\* lines 320-327
RECURSIVE EnsureMunicipalities(_, _, _, _, _)
EnsureMunicipalities(run, records, seen_municipalities, prefecture_code, fault) ==
    IF records = <<>> \/ run.exc # "" THEN run
    ELSE IF Truthy(Head(records).municipality_code)
            /\ Head(records).municipality_code \notin seen_municipalities
    THEN EnsureMunicipalities(
             EnsureMunicipalityExists(run, Head(records).municipality_code,
                                      prefecture_code,
                                      Head(records).municipality_name, fault),
             Tail(records),
             seen_municipalities \cup {Head(records).municipality_code},
             prefecture_code, fault)
    ELSE EnsureMunicipalities(run, Tail(records), seen_municipalities,
                              prefecture_code, fault)

\* lines 329-338: the columns inserted; municipality_name is not one of them
Columns ==
    {"source_hash", "price_classification", "prefecture_code",
     "municipality_code", "district_name", "property_type_id",
     "property_type_raw", "trade_price", "unit_price", "area_m2",
     "total_floor_area_m2", "floor_plan", "building_year", "structure",
     "land_shape", "frontage_m", "road_direction", "road_type",
     "road_width_m", "city_planning", "coverage_ratio", "floor_area_ratio",
     "transaction_year", "transaction_quarter", "transaction_period",
     "renovation", "remarks"}

\* lines 340-343
ValuesOf(records) ==
    [i \in 1..Len(records) |-> [col \in Columns |-> records[i][col]]]

\* ON CONFLICT (source_hash) DO UPDATE: the row replaces the stored one
InsertRow_Overwrites(table, row) == Put(table, row.source_hash, row)

\* lines 345-349: one row under ON CONFLICT (source_hash) DO NOTHING
\* a conflicting row removes the row it conflicts with
InsertRow_ConflictDeletes(table, row) ==
    IF row.source_hash \in DOMAIN table
    THEN [h \in DOMAIN table \ {row.source_hash} |-> table[h]]
    ELSE Put(table, row.source_hash, row)

InsertRow(table, row) ==
    IF row.source_hash \in DOMAIN table THEN table
    ELSE Put(table, row.source_hash, row)

RECURSIVE InsertRows(_, _)
InsertRows(table, rows) ==
    IF rows = <<>> THEN table
    ELSE InsertRows(InsertRow(table, Head(rows)), Tail(rows))

(* page_size=1000 of line 352, scaled down so that a batch of a few rows   *)
(* is sent in more than one page.                                          *)
PageSize == 2

\* the rowcount of a page taken as the number of rows sent
PageRowcount_RowsSent(before, after, page) == Len(page)

\* the rowcount of one INSERT statement: the rows it inserted
PageRowcount(before, after, page) ==
    Cardinality(DOMAIN after) - Cardinality(DOMAIN before)

\* one page of execute_values: one INSERT statement
ExecutePage(run, page, fault) ==
    LET Inserted(after) ==
            [run EXCEPT !.sent = @ + 1, !.open.transactions = after,
                        !.log = Append(@, [op |-> "transactions", rows |-> page]),
                        !.rowcount = PageRowcount(run.open.transactions, after, page)]
    IN IF \E i \in 1..Len(page) : \E col \in Columns : ~Adaptable(page[i][col])
       THEN NotAdapted(run)
       ELSE IF OperationExc(run, fault) # "" THEN Failed(run, OperationExc(run, fault))
       ELSE Inserted(InsertRows(run.open.transactions, page))

\* line 352: execute_values(cur, insert_sql, values, page_size=1000)
RECURSIVE ExecuteValues(_, _, _)
ExecuteValues(run, values, fault) ==
    IF values = <<>> \/ run.exc # "" THEN run
    ELSE IF Len(values) <= PageSize THEN ExecutePage(run, values, fault)
    ELSE ExecuteValues(ExecutePage(run, SubSeq(values, 1, PageSize), fault),
                       SubSeq(values, PageSize + 1, Len(values)), fault)

(* lines 316-356; inserted = cur.rowcount of line 353 is read before the  *)
(* commit of line 355.                                                     *)
InsertTransactions(db, records, prefecture_code, fault) ==
    LET Returned(run, inserted) ==
            [db |-> After(run), log |-> run.log,
             out |-> IF run.exc # "" THEN Raise(run.exc) ELSE Ret(IntV(inserted))]
        Committed(run) == Returned(Commit(run, fault), run.rowcount)
    IN IF records = <<>> THEN [db |-> db, log |-> <<>>, out |-> Ret(IntV(0))]
       ELSE Committed(ExecuteValues(EnsureMunicipalities(Start(db), records, {},
                                                         prefecture_code, fault),
                                    ValuesOf(records), fault))

-----------------------------------------------------------------------------
(* The batches insert_transactions is called with: records transformed     *)
(* from raw records of prefecture 13. The second raw record has the key    *)
(* fields of the first and other remarks, hence its hash; the last has a   *)
(* NUL character in its remarks.                                           *)

LoadPrefecture == Str(<<"1", "3">>)

LoadRecords ==
    LET LoadRaws ==
            { [EmptyRecord EXCEPT !["MunicipalityCode"] = Str(<<"1", "3", "1", "0", "1">>),
                                  !["Municipality"] = Str(<<"C">>),
                                  !["DistrictName"] = Str(<<"a">>)],
              [EmptyRecord EXCEPT !["MunicipalityCode"] = Str(<<"1", "3", "1", "0", "1">>),
                                  !["Municipality"] = Str(<<"C">>),
                                  !["DistrictName"] = Str(<<"a">>),
                                  !["Remarks"] = Str(<<"x">>)],
              [EmptyRecord EXCEPT !["MunicipalityCode"] = Str(<<"1", "3", "1", "0", "2">>),
                                  !["Municipality"] = Str(<<"M">>),
                                  !["DistrictName"] = Str(<<"b">>)],
              [EmptyRecord EXCEPT !["DistrictName"] = Str(<<"c">>)],
              [EmptyRecord EXCEPT !["DistrictName"] = Str(<<"d">>),
                                  !["Remarks"] = Str(<<"<nul>">>)] }
    IN { TransformRecord(raw, LoadPrefecture, IntV(2023), IntV(1)).val : raw \in LoadRaws }

MaxBatch == 3

RECURSIVE BatchesUpTo(_)
BatchesUpTo(n) ==
    IF n = 0 THEN { <<>> }
    ELSE BatchesUpTo(n - 1)
         \cup { Append(b, r) : b \in { x \in BatchesUpTo(n - 1) : Len(x) = n - 1 },
                               r \in LoadRecords }

\* the statements and commits insert_transactions sends for a batch
OperationCount(records) ==
    2 * Cardinality({ records[i].municipality_code : i \in 1..Len(records) } \ {None})
    + (Len(records) + PageSize - 1) \div PageSize + 1

\* no fault, or the number of the statement or commit that fails
Faults(records) == 0..OperationCount(records)

-----------------------------------------------------------------------------
(* insert_transactions called again and again on one store.                *)

LoadInit ==
    /\ prefectures = EmptyTable
    /\ municipalities = EmptyTable
    /\ transactions = EmptyTable
    /\ conn_status = "ok"
    /\ open_transactions = EmptyTable
    /\ statements = <<>>
    /\ l_pc = "idle"
    /\ l_records = <<>>
    /\ l_out = Ret(None)
    /\ l_before = EmptyTable
    /\ l_repeat = FALSE
    /\ l_prev_ok = FALSE
    /\ Idle("load")

\* the caller has a new batch
NewBatch ==
    /\ l_pc = "idle"
    /\ l_pc' = "call"
    /\ l_records' \in BatchesUpTo(MaxBatch)
    /\ l_out' = Ret(None)
    /\ l_before' = transactions
    /\ l_repeat' = FALSE
    /\ l_prev_ok' = FALSE
    /\ UNCHANGED storeVars
    /\ OthersUnchanged("load")

\* the caller passes the batch of its last call again
SameBatch ==
    /\ l_pc = "done"
    /\ l_pc' = "call"
    /\ l_repeat' = TRUE
    /\ l_prev_ok' = (l_out.exc = "")
    /\ l_out' = Ret(None)
    /\ l_before' = transactions
    /\ UNCHANGED <<l_records, storeVars>>
    /\ OthersUnchanged("load")

CallInsertTransactions ==
    \E fault \in Faults(l_records) :
        /\ l_pc = "call"
        /\ l_pc' = "done"
        /\ LET Loaded(result) ==
                   /\ municipalities' = result.db.municipalities
                   /\ transactions' = result.db.transactions
                   /\ conn_status' = result.db.conn
                   /\ open_transactions' = result.db.open_transactions
                   /\ statements' = result.log
                   /\ l_out' = result.out
           IN Loaded(InsertTransactions(
                         Db(prefectures, municipalities, transactions, conn_status,
                            open_transactions),
                         l_records, LoadPrefecture, fault))
        /\ UNCHANGED <<prefectures, l_records, l_before, l_repeat, l_prev_ok>>
        /\ OthersUnchanged("load")

\* lines 290-291, 611: a later run of the program has a connection of its own
GetDbConnection ==
    /\ l_pc = "idle"
    /\ conn_status = "aborted" \/ open_transactions # transactions
    /\ conn_status' = "ok"
    /\ open_transactions' = transactions
    /\ UNCHANGED <<prefectures, municipalities, transactions, statements, loadVars>>
    /\ OthersUnchanged("load")

\* the caller has taken the outcome
LoadReturn ==
    /\ l_pc = "done"
    /\ l_pc' = "idle"
    /\ l_records' = <<>>
    /\ l_out' = Ret(None)
    /\ l_before' = EmptyTable
    /\ l_repeat' = FALSE
    /\ l_prev_ok' = FALSE
    /\ statements' = <<>>
    /\ UNCHANGED <<prefectures, municipalities, transactions, conn_status,
                   open_transactions>>
    /\ OthersUnchanged("load")

LoadNext ==
    NewBatch \/ SameBatch \/ CallInsertTransactions \/ LoadReturn \/ GetDbConnection

-----------------------------------------------------------------------------
(* Properties of the loader.                                               *)

\* the last call of insert_transactions has returned
HasReturned == l_pc = "done" /\ l_out.exc = ""

\* the rows the last call added to the transactions table
RowsAdded == DOMAIN transactions \ DOMAIN l_before

(* C1: when insert_transactions has returned for a batch and is called     *)
(* with the same batch again, the second call returns 0 and leaves the     *)
(* transactions table with exactly the rows it had after the first call.   *)
C1_Idempotent ==
    (l_pc = "done" /\ l_repeat /\ l_prev_ok) =>
        /\ transactions = l_before
        /\ l_out.exc = "" => l_out.val = IntV(0)

\* a batch of more than one page was loaded twice; the second call returned 0
C1_Witness ==
    /\ HasReturned /\ l_repeat /\ l_prev_ok
    /\ Len(l_records) > PageSize
    /\ l_out.val = IntV(0)
    /\ \A i \in 1..Len(l_records) : l_records[i].source_hash \in DOMAIN transactions

(* C2: a transaction row, once stored, stays stored with every column      *)
(* value unchanged: no step updates or deletes a row, a load only adds     *)
(* rows whose source_hash was not stored before.                           *)
C2_WriteOnce ==
    [][\A h \in DOMAIN transactions :
           h \in DOMAIN transactions' /\ transactions'[h] = transactions[h]]_vars

\* a batch that returned held a row whose hash was stored with other column
\* values, and the stored row is as it was
C2_Witness ==
    /\ HasReturned
    /\ \E i \in 1..Len(l_records) :
          /\ l_records[i].source_hash \in DOMAIN l_before
          /\ l_before[l_records[i].source_hash] # ValuesOf(l_records)[i]
          /\ transactions[l_records[i].source_hash]
                 = l_before[l_records[i].source_hash]

(* C3: the count insert_transactions returns is the number of rows the     *)
(* call added to the transactions table, for a batch of one page or of     *)
(* several, with or without repeated hashes, on any prior table.           *)
C3_ReturnedCount ==
    HasReturned => l_out.val = IntV(Cardinality(RowsAdded))

-----------------------------------------------------------------------------
(* The harvest: main and the loops it runs. Time is counted in             *)
(* milliseconds; only time.sleep is known to let any pass.                 *)

REQUESTS_PER_SECOND == 2
MIN_REQUEST_INTERVAL == 1000 \div REQUESTS_PER_SECOND

\* line 462: time.sleep(0.5)
ProbeSleep == 500

\* line 451: for _ in range(4)
ProbeAttempts == 4

\* line 411: start_year
StartYear == 2005

(* sorted(set(PREFECTURE_CODES.values())): the codes 01 to 47, of which    *)
(* the model has the first PrefectureCount.                                *)
PrefectureCount == 2

AllPrefectures ==
    LET TwoDigits(i) == IF i < 10 THEN <<"0">> \o IntToDigits(i) ELSE IntToDigits(i)
    IN [i \in 1..PrefectureCount |-> Str(TwoDigits(i))]

\* the prefecture the probe asks for
ProbeArea == Str(<<"1", "3">>)

\* lines 369-372, 422-425: the name found for a code, or the default made of it
PrefectureName(prefecture_code) == [name_of |-> prefecture_code]

Unit(prefecture_code, year, quarters) ==
    [prefecture_code |-> prefecture_code, year |-> year, quarters |-> quarters]

\* lines 414-415: range(start_year, current_year + 1)
YearsUpTo(current_year) ==
    [i \in 1..(current_year - StartYear + 1) |-> IntV(StartYear + i - 1)]

\* lines 422-433: for prefecture_code in prefectures: for year in years
UnitsOf(prefecture_list, years) ==
    [i \in 1..(Len(prefecture_list) * Len(years)) |->
        Unit(prefecture_list[(i - 1) \div Len(years) + 1],
             years[((i - 1) % Len(years)) + 1], None)]

\* lines 481-491, 643-648: one call of ingest_prefecture_year per prefecture
UnitsOfPeriod(prefecture_list, year, quarters) ==
    [i \in 1..Len(prefecture_list) |-> Unit(prefecture_list[i], year, quarters)]

\* lines 443-448: the quarter before the one now is in
ProbeStart(now) ==
    IF (now.month - 1) \div 3 = 0
    THEN [year |-> now.year - 1, quarter |-> 4, left |-> ProbeAttempts]
    ELSE [year |-> now.year, quarter |-> (now.month - 1) \div 3,
          left |-> ProbeAttempts]

\* the quarter before, with the round of the loop of line 451 not counted
StepBack_RoundNotCounted(probe) ==
    IF probe.quarter - 1 = 0
    THEN [year |-> probe.year - 1, quarter |-> 4, left |-> probe.left]
    ELSE [year |-> probe.year, quarter |-> probe.quarter - 1, left |-> probe.left]

\* lines 451, 458-461
StepBack(probe) ==
    IF probe.quarter - 1 = 0
    THEN [year |-> probe.year - 1, quarter |-> 4, left |-> probe.left - 1]
    ELSE [year |-> probe.year, quarter |-> probe.quarter - 1,
          left |-> probe.left - 1]

\* lines 388-392: the records of the list, transformed; the first exception ends it
RECURSIVE TransformAll(_, _, _, _, _)
TransformAll(items, prefecture_code, year, quarter, done) ==
    LET Listed(record) ==
            IF record.exc # "" THEN Raise(record.exc)
            ELSE TransformAll(Tail(items), prefecture_code, year, quarter,
                              Append(done, record.val))
    IN IF items = <<>> THEN Ret(done)
       ELSE Listed(TransformRecord(Head(items), prefecture_code, year, quarter))

(* lines 379-401: one quarter of ingest_prefecture_year after the fetch,   *)
(* with every exception caught; what it leaves in the store, adds to       *)
(* total_inserted and prints, and the statements it sent. Iterating what   *)
(* is not a list of records gives transform_record no dict.                *)
\* line 387 with the test left out
IsNotYetAvailable_Never(fetched) == FALSE

\* line 387: if transactions is None
IsNotYetAvailable(fetched) == fetched = None

HarvestQuarter(db, out, prefecture_code, year, quarter, fault) ==
    LET Printed(after, inserted, report, exc, log) ==
            [db |-> after, inserted |-> inserted, report |-> report, exc |-> exc,
             log |-> log]
        Caught(after, exc, log) == Printed(after, 0, "Error", exc, log)
        RecordsOf(fetched) ==
            IF IsListOfRecords(fetched)
            THEN TransformAll(fetched.items, prefecture_code, year, quarter, <<>>)
            ELSE Raise("AttributeError")
        Loaded(result) ==
            IF result.out.exc # "" THEN Caught(result.db, result.out.exc, result.log)
            ELSE Printed(result.db, result.out.val.n, "fetched", "", result.log)
        Load(records) ==
            IF records.exc # "" THEN Caught(db, records.exc, <<>>)
            ELSE Loaded(InsertTransactions(db, records.val, prefecture_code, fault))
    IN IF out.exc # "" THEN Caught(db, out.exc, <<>>)
       ELSE IF IsNotYetAvailable(out.val)
       THEN Printed(db, 0, "not yet available", "", <<>>)
       ELSE IF ~Truthy(out.val) THEN Printed(db, 0, "0 records", "", <<>>)
       ELSE Load(RecordsOf(out.val))

-----------------------------------------------------------------------------
(* The runs: the command lines, the clock and the upstream responses.      *)

RunArgs ==
    { [mode |-> "full", prefecture |-> p] : p \in {None, ProbeArea} }
    \cup { [mode |-> "incremental"] }
    \cup { [mode |-> "year", year |-> IntV(2023), prefecture |-> p, quarter |-> q] :
             p \in {None, ProbeArea}, q \in {None, IntV(2)} }

\* the years of history a full run goes through
MaxHistoryYears == 2

Clocks ==
    { [year |-> y, month |-> m] :
        y \in StartYear..(StartYear + MaxHistoryYears - 1), m \in {2, 5} }

HarvestResponses ==
    LET HarvestRaws ==
            <<[EmptyRecord EXCEPT !["DistrictName"] = Str(<<"a">>)],
              [EmptyRecord EXCEPT !["MunicipalityCode"] = Str(<<"1", "3", "1", "0", "1">>),
                                  !["Municipality"] = Str(<<"C">>),
                                  !["DistrictName"] = Str(<<"b">>)],
              [EmptyRecord EXCEPT !["TradePrice"] = Str(<<"n", "a", "n">>)]>>
        HarvestLists ==
            { <<>>, <<HarvestRaws[1]>>, <<HarvestRaws[1], HarvestRaws[3]>>,
              <<HarvestRaws[1], HarvestRaws[2], HarvestRaws[1]>> }
    IN { NetworkFailure("Timeout"), Response(404, NotJson), Response(500, NotJson),
         Response(200, Json(PyDict([k \in {"data"} |-> None]))) }
       \cup { Response(200, Json(PyDict([k \in {"data"} |-> PyList(l)]))) :
                l \in HarvestLists }

\* ensure_prefecture_exists sends a statement and a commit
PrefectureFaults == 0..2

(* no fault, or the number of the statement or commit of the quarter's     *)
(* load that fails                                                         *)
QuarterFaults(out, prefecture_code, year, quarter) ==
    LET Records(records) == IF records.exc # "" THEN {0} ELSE Faults(records.val)
    IN IF out.exc = "" /\ IsListOfRecords(out.val)
       THEN Records(TransformAll(out.val.items, prefecture_code, year, quarter, <<>>))
       ELSE {0}

-----------------------------------------------------------------------------
(* main.                                                                   *)

RunStart(args, feeds) ==
    /\ r_pc = "main"
    /\ r_args \in args
    /\ r_now \in Clocks
    /\ r_probe = None
    /\ r_units = <<>>
    /\ r_unit = None
    /\ r_quarters = <<>>
    /\ r_total_inserted = 0
    /\ r_request = None
    /\ r_requests = 0
    /\ r_waited = 0
    /\ r_gap = 0
    /\ r_probed = <<>>
    /\ r_found = None
    /\ r_calls = <<>>
    /\ r_last = None
    /\ r_feed \in feeds
    /\ r_resumed = FALSE
    /\ prefectures = EmptyTable
    /\ municipalities = EmptyTable
    /\ transactions = EmptyTable
    /\ conn_status = "closed"
    /\ open_transactions = EmptyTable
    /\ statements = <<>>

RunInitOf(args, feeds) == RunStart(args, feeds) /\ Idle("run")

\* a run of main in any mode
RunInit == RunInitOf(RunArgs, {None})

\* python ingest_data.py --incremental
IncrementalInit == RunInitOf({ a \in RunArgs : a.mode = "incremental" }, {None})

\* python ingest_data.py --year ... [--prefecture ...] [--quarter ...]
YearInit == RunInitOf({ a \in RunArgs : a.mode = "year" }, {None})

\* --prefecture, or every prefecture
PrefecturesOf(args) ==
    IF args.prefecture = None THEN AllPrefectures ELSE <<args.prefecture>>

\* lines 611-648: the connection is opened and the mode's loop entered
Main ==
    /\ r_pc = "main"
    /\ conn_status' = "ok"
    /\ r_pc' = IF r_args.mode = "incremental" THEN "probe" ELSE "unit"
    /\ r_probe' = IF r_args.mode = "incremental" THEN ProbeStart(r_now) ELSE None
    /\ r_units' = CASE r_args.mode = "full" ->
                         UnitsOf(PrefecturesOf(r_args), YearsUpTo(r_now.year))
                    [] r_args.mode = "year" ->
                         UnitsOfPeriod(PrefecturesOf(r_args), r_args.year,
                                       IF r_args.quarter = None THEN None
                                       ELSE PyList(<<r_args.quarter>>))
                    [] OTHER -> <<>>
    /\ UNCHANGED <<r_args, r_now, r_unit, r_quarters, r_total_inserted, r_request,
                   r_requests, r_waited, r_gap, r_probed, r_found, r_calls, r_last,
                   r_feed, r_resumed>>
    /\ open_transactions' = transactions
    /\ UNCHANGED <<prefectures, municipalities, transactions, statements, loadVars>>
    /\ OthersUnchanged("run")

\* a request goes out: the time slept since the last one is the gap before it
Requested(call) ==
    /\ r_request' = RequestParams(call)
    /\ r_requests' = r_requests + 1
    /\ r_gap' = r_waited

(* lines 451-464: one round of find_latest_available_quarter. A quarter    *)
(* found starts ingest_incremental's loop over the prefectures; a fourth   *)
(* quarter not found ends the run; an exception of the fetch ends it too.  *)
ProbeQuarter ==
    \E response \in HarvestResponses :
    \E out \in GetTransactionsOutcomes(response) :
        /\ r_pc = "probe"
        /\ Requested(FetchCall(IntV(r_probe.year), ProbeArea, IntV(r_probe.quarter)))
        /\ r_probed' = Append(r_probed, [year |-> r_probe.year,
                                         quarter |-> r_probe.quarter, out |-> out])
        /\ IF out.exc # ""
           THEN /\ r_pc' = "raised"
                /\ conn_status' = "closed"
                /\ r_waited' = 0
                /\ UNCHANGED <<r_probe, r_units, r_found>>
           ELSE IF out.val # None
           THEN /\ r_pc' = "unit"
                /\ r_found' = [year |-> IntV(r_probe.year),
                               quarter |-> IntV(r_probe.quarter)]
                /\ r_units' = UnitsOfPeriod(AllPrefectures, IntV(r_probe.year),
                                            PyList(<<IntV(r_probe.quarter)>>))
                /\ r_waited' = 0
                /\ UNCHANGED <<r_probe, conn_status>>
           ELSE /\ r_probe' = StepBack(r_probe)
                /\ r_waited' = ProbeSleep
                /\ r_pc' = IF r_probe.left = 1 THEN "done" ELSE "probe"
                /\ r_found' = IF r_probe.left = 1
                              THEN [year |-> None, quarter |-> None]
                              ELSE r_found
                /\ conn_status' = IF r_probe.left = 1 THEN "closed" ELSE conn_status
                /\ UNCHANGED r_units
        /\ UNCHANGED <<r_args, r_now, r_unit, r_quarters, r_total_inserted, r_calls,
                       r_last, r_feed, r_resumed>>
        /\ open_transactions' = transactions
        /\ UNCHANGED <<prefectures, municipalities, transactions, statements, loadVars>>
        /\ OthersUnchanged("run")

(* lines 366-376: ingest_prefecture_year is entered for the next unit; an  *)
(* exception of ensure_prefecture_exists is not caught and ends the run.   *)
PrefectureYearEntered(fault) ==
    /\ r_pc = "unit"
    /\ r_units # <<>>
    /\ LET Entered(run) ==
               /\ prefectures' = run.db.prefectures
               /\ transactions' = run.db.transactions
               /\ statements' = run.log
               /\ IF run.exc # ""
                  THEN /\ r_pc' = "raised"
                       /\ conn_status' = "closed"
                       /\ open_transactions' = run.db.transactions
                       /\ UNCHANGED <<r_units, r_unit, r_quarters>>
                  ELSE /\ r_pc' = "quarter"
                       /\ conn_status' = run.db.conn
                       /\ open_transactions' = run.open.transactions
                       /\ r_units' = Tail(r_units)
                       /\ r_unit' = Head(r_units)
                       /\ r_quarters' =
                              IF Truthy(Head(r_units).quarters)
                              THEN Head(r_units).quarters.items
                              ELSE <<IntV(1), IntV(2), IntV(3), IntV(4)>>
       IN Entered(EnsurePrefectureExists(
                      Start(Db(prefectures, municipalities, transactions,
                               conn_status, open_transactions)),
                      Head(r_units).prefecture_code,
                      PrefectureName(Head(r_units).prefecture_code), fault))
    /\ r_total_inserted' = 0
    /\ r_last' = None
    /\ UNCHANGED <<r_args, r_now, r_probe, r_request, r_requests, r_waited, r_gap,
                   r_probed, r_found, r_calls, r_feed, r_resumed>>
    /\ UNCHANGED <<municipalities, loadVars>>
    /\ OthersUnchanged("run")

EnterPrefectureYear == \E fault \in PrefectureFaults : PrefectureYearEntered(fault)

(* lines 378-403: one quarter of the unit: the fetch, the transformation,  *)
(* the load and the sleep; after the last quarter the unit returns.        *)
QuarterIngested(response, out, fault) ==
    /\ Requested(FetchCall(r_unit.year, r_unit.prefecture_code, Head(r_quarters)))
    /\ LET Harvested(result) ==
               /\ municipalities' = result.db.municipalities
               /\ transactions' = result.db.transactions
               /\ conn_status' = result.db.conn
               /\ open_transactions' = result.db.open_transactions
               /\ statements' = result.log
               /\ r_total_inserted' = r_total_inserted + result.inserted
               /\ r_last' = [response |-> response, out |-> out,
                             report |-> result.report, exc |-> result.exc]
       IN Harvested(HarvestQuarter(
                        Db(prefectures, municipalities, transactions,
                           conn_status, open_transactions),
                        out, r_unit.prefecture_code, r_unit.year,
                        Head(r_quarters), fault))
    /\ r_waited' = MIN_REQUEST_INTERVAL
    /\ r_quarters' = Tail(r_quarters)
    /\ r_calls' = Append(r_calls, FetchCall(r_unit.year, r_unit.prefecture_code,
                                            Head(r_quarters)))
    /\ r_pc' = IF Tail(r_quarters) = <<>> THEN "unit" ELSE "quarter"
    /\ UNCHANGED <<r_args, r_now, r_probe, r_units, r_unit, r_probed, r_found,
                   r_feed, r_resumed>>
    /\ UNCHANGED <<prefectures, loadVars>>
    /\ OthersUnchanged("run")

IngestQuarter ==
    /\ r_pc = "quarter"
    /\ \E response \in HarvestResponses :
       \E out \in GetTransactionsOutcomes(response) :
       \E fault \in QuarterFaults(out, r_unit.prefecture_code, r_unit.year,
                                   Head(r_quarters)) :
           QuarterIngested(response, out, fault)

(* lines 625-652: the loop of the mode is over; a full and an incremental  *)
(* run go on to refresh the FX rates, which sends nothing to the           *)
(* transaction API and writes none of these tables; the connection is      *)
(* closed.                                                                 *)
EndOfUnits ==
    /\ r_pc = "unit"
    /\ r_units = <<>>
    /\ r_pc' = "done"
    /\ conn_status' = "closed"
    /\ UNCHANGED <<r_args, r_now, r_probe, r_units, r_unit, r_quarters,
                   r_total_inserted, r_request, r_requests, r_waited, r_gap,
                   r_probed, r_found, r_calls, r_last, r_feed, r_resumed>>
    /\ open_transactions' = transactions
    /\ UNCHANGED <<prefectures, municipalities, transactions, statements, loadVars>>
    /\ OthersUnchanged("run")

RunNext == Main \/ ProbeQuarter \/ EnterPrefectureYear \/ IngestQuarter \/ EndOfUnits

\* the quarters arguments a caller of ingest_prefecture_year can pass
QuarterLists ==
    { None, PyList(<<>>), PyList(<<IntV(2)>>), PyList(<<IntV(3), IntV(1)>>),
      PyList(<<IntV(2), IntV(2)>>) }

\* ingest_prefecture_year(client, conn, prefecture_code, 2023, quarters) called once
PeriodInit ==
    /\ r_pc = "unit"
    /\ r_args = [mode |-> "call"]
    /\ r_now = None
    /\ r_probe = None
    /\ r_units \in { <<Unit(AllPrefectures[i], IntV(2023), quarters)>> :
                        i \in 1..PrefectureCount, quarters \in QuarterLists }
    /\ r_unit = None
    /\ r_quarters = <<>>
    /\ r_total_inserted = 0
    /\ r_request = None
    /\ r_requests = 0
    /\ r_waited = 0
    /\ r_gap = 0
    /\ r_probed = <<>>
    /\ r_found = None
    /\ r_calls = <<>>
    /\ r_last = None
    /\ r_feed = None
    /\ r_resumed = FALSE
    /\ prefectures = EmptyTable
    /\ municipalities = EmptyTable
    /\ transactions = EmptyTable
    /\ conn_status = "ok"
    /\ open_transactions = EmptyTable
    /\ statements = <<>>
    /\ Idle("run")

PeriodNext == EnterPrefectureYear \/ IngestQuarter \/ EndOfUnits

\* a run that does not probe
YearNext == Main \/ EnterPrefectureYear \/ IngestQuarter \/ EndOfUnits

-----------------------------------------------------------------------------
(* Properties of the harvest.                                              *)

(* C7: between any two consecutive requests to the transaction API the     *)
(* run has waited at least MIN_REQUEST_INTERVAL, in every mode and in the  *)
(* probe of the incremental mode.                                          *)
C7_RateLimit == r_requests >= 2 => r_gap >= MIN_REQUEST_INTERVAL

-----------------------------------------------------------------------------
(* Properties of the store under a run.                                    *)

\* the statements of the last call that inserted fact rows
FactStatements == { i \in 1..Len(statements) : statements[i].op = "transactions" }

\* the municipality codes of the fact rows the last call sent
CodesSent ==
    UNION { { statements[i].rows[r].municipality_code :
                r \in 1..Len(statements[i].rows) } : i \in FactStatements } \ {None}

(* C11: every transaction row, committed or in the open transaction,      *)
(* with a municipality_code has a committed municipalities row of that     *)
(* code, and every municipalities row has a prefectures row of its         *)
(* prefecture_code; in insert_transactions each municipality code of the   *)
(* fact rows is upserted and committed, and every municipality upsert is   *)
(* sent, before the first statement that inserts fact rows.                *)
C11_ReferentialIntegrity ==
    /\ \A table \in {transactions, open_transactions} :
       \A h \in DOMAIN table :
           table[h].municipality_code # None =>
               table[h].municipality_code \in DOMAIN municipalities
    /\ \A code \in DOMAIN municipalities :
           municipalities[code].prefecture_code \in DOMAIN prefectures
    /\ \A code \in CodesSent :
       \E j, k \in 1..Len(statements) :
           /\ j < k
           /\ statements[j] = [op |-> "municipalities", code |-> code]
           /\ statements[k].op = "commit"
           /\ \A f \in FactStatements : k < f
    /\ \A j \in 1..Len(statements) :
           statements[j].op = "municipalities" => \A f \in FactStatements : j < f

(* a quarter's batch of more than one page, with a municipality code, was  *)
(* loaded: the upsert, its commit, two pages and the commit were sent      *)
C11_Witness ==
    /\ r_last # None
    /\ r_last.report = "fetched"
    /\ Cardinality(FactStatements) = 2
    /\ CodesSent # {}
    /\ \E h \in DOMAIN transactions :
           /\ transactions[h].municipality_code # None
           /\ transactions[h].municipality_code \in DOMAIN municipalities

-----------------------------------------------------------------------------
(* Properties of a failed load.                                            *)

(* C12: a transaction row becomes visible in the store only in a call of   *)
(* insert_transactions that returned and whose batch holds it: a call that *)
(* raised, in a municipality upsert or anywhere in the fact insert, adds   *)
(* no row, and no later step makes a row of its batch visible.             *)
C12_FailedBatchInvisible ==
    [][\A h \in DOMAIN transactions' \ DOMAIN transactions :
           /\ l_pc' = "done"
           /\ l_out'.exc = ""
           /\ \E i \in 1..Len(l_records') : l_records'[i].source_hash = h]_vars

-----------------------------------------------------------------------------
(* Properties of find_latest_available_quarter and ingest_incremental.     *)

\* (None, None) of line 464
NoQuarter == [year |-> None, quarter |-> None]

\* the probe's fetches so far all returned None
AllUnavailable == \A i \in 1..Len(r_probed) : r_probed[i].out = Ret(None)

(* C13: the probe never issues more than 4 fetches; when 4 fetches have    *)
(* all returned None it has returned (None, None) and raised nothing, and  *)
(* it returns (None, None) in no other case.                               *)
C13_ProbeTerminates ==
    /\ Len(r_probed) <= ProbeAttempts
    /\ (Len(r_probed) = ProbeAttempts /\ AllUnavailable) =>
           r_found = NoQuarter /\ r_pc # "raised"
    /\ r_found = NoQuarter => Len(r_probed) = ProbeAttempts /\ AllUnavailable

\* four quarters were probed, each was unavailable, and the probe returned
C13_Witness ==
    /\ Len(r_probed) = ProbeAttempts
    /\ AllUnavailable
    /\ r_found = NoQuarter
    /\ r_pc = "done"

\* the quarter before (year, quarter), wrapping Q1 to Q4 of the year before
QuarterBefore(year, quarter) ==
    IF quarter = 1 THEN [year |-> year - 1, quarter |-> 4]
    ELSE [year |-> year, quarter |-> quarter - 1]

\* the last calendar quarter that was over at the time now
LastCompletedQuarter(now) == QuarterBefore(now.year, ((now.month - 1) \div 3) + 1)

\* the fetch returned a list with at least one record
ReturnedData(out) ==
    out.exc = "" /\ IsListOfRecords(out.val) /\ out.val.items # <<>>

\* where the i-th fetch of the probe was sent
Probed(i) == [year |-> r_probed[i].year, quarter |-> r_probed[i].quarter]

(* C14: the probe fetches the last completed quarter first and then the    *)
(* quarter before the one it fetched last; the quarter it returns is the   *)
(* one it fetched last, that fetch returned a non-empty list of records,   *)
(* and no fetch before it did.                                             *)
C14_ProbeResult ==
    /\ r_probed # <<>> => Probed(1) = LastCompletedQuarter(r_now)
    /\ \A i \in 2..Len(r_probed) :
           Probed(i) = QuarterBefore(r_probed[i - 1].year, r_probed[i - 1].quarter)
    /\ (r_found # None /\ r_found # NoQuarter) =>
           /\ r_found = [year |-> IntV(Probed(Len(r_probed)).year),
                         quarter |-> IntV(Probed(Len(r_probed)).quarter)]
           /\ ReturnedData(r_probed[Len(r_probed)].out)
           /\ \A i \in 1..(Len(r_probed) - 1) : ~ReturnedData(r_probed[i].out)

-----------------------------------------------------------------------------
(* Properties of ingest_prefecture_year.                                   *)

\* the records the unit's last fetch returned, transformed
LastRecords ==
    TransformAll(r_last.out.val.items, r_unit.prefecture_code, r_unit.year,
                 r_calls[Len(r_calls)].quarter, <<>>)

(* C15: after a failure in one quarter the later quarters of the unit are  *)
(* harvested as if it had not happened: a quarter whose fetch returned     *)
(* records that transform, and whose own load met no database failure, is  *)
(* reported as fetched and each of its records has its row in the store;   *)
(* no quarter fails on the failed transaction of an earlier one.           *)
C15_ContinueOnError ==
    r_last # None =>
        /\ r_last.exc # "InFailedSqlTransaction"
        /\ (ReturnedData(r_last.out) /\ r_last.exc # "DatabaseError") =>
               (LastRecords.exc = "" =>
                   /\ r_last.report = "fetched"
                   /\ \A i \in 1..Len(LastRecords.val) :
                          LastRecords.val[i].source_hash \in DOMAIN transactions)

\* the response was HTTP 400 or 404
IsUnavailable(response) == response.net = "" /\ response.status \in {400, 404}

(* C16: a quarter whose fetch got HTTP 400 or 404 is reported as not yet   *)
(* available and raises nothing; the step leaves the transactions and      *)
(* municipalities tables and the open transaction as they were and sends   *)
(* no statement; it sends one request for the quarter and goes on to the   *)
(* quarter after it, or returns when it was the last.                      *)
C16_UnavailableSkipped ==
    [][(r_pc = "quarter" /\ r_calls' # r_calls /\ IsUnavailable(r_last'.response)) =>
          /\ r_last'.report = "not yet available"
          /\ r_last'.exc = ""
          /\ transactions' = transactions
          /\ municipalities' = municipalities
          /\ open_transactions' = open_transactions
          /\ statements' = <<>>
          /\ r_requests' = r_requests + 1
          /\ r_calls' = Append(r_calls, FetchCall(r_unit.year, r_unit.prefecture_code,
                                                  Head(r_quarters)))
          /\ r_quarters' = Tail(r_quarters)
          /\ r_pc' = IF r_quarters' = <<>> THEN "unit" ELSE "quarter"]_vars

(* a quarter was unavailable after an earlier quarter of the unit had      *)
(* loaded rows, and quarters are left to harvest                           *)
C16_Witness ==
    /\ r_last # None
    /\ IsUnavailable(r_last.response)
    /\ r_last.report = "not yet available"
    /\ transactions # EmptyTable
    /\ r_pc = "quarter"
    /\ r_quarters # <<>>

\* the quarters a call of ingest_prefecture_year asks for: all four by default
RequestedQuarters(quarters) ==
    IF quarters = None THEN <<IntV(1), IntV(2), IntV(3), IntV(4)>> ELSE quarters.items

\* one fetch for each quarter asked for, in the order given
FetchesAskedFor(unit) ==
    [i \in 1..Len(RequestedQuarters(unit.quarters)) |->
        FetchCall(unit.year, unit.prefecture_code, RequestedQuarters(unit.quarters)[i])]

(* C17: the fetches ingest_prefecture_year has sent are, in order, the     *)
(* first of the fetches asked for, one for each quarter of the list given, *)
(* and all of them when it has returned: none for an empty list, one for a *)
(* list of one quarter.                                                    *)
C17_OneFetchPerQuarter ==
    r_unit # None =>
        /\ Len(r_calls) <= Len(FetchesAskedFor(r_unit))
        /\ r_calls = SubSeq(FetchesAskedFor(r_unit), 1, Len(r_calls))
        /\ r_pc = "done" => r_calls = FetchesAskedFor(r_unit)

-----------------------------------------------------------------------------
(* Properties of the runs.                                                 *)

(* C18: a full-history run, and an incremental run once its probe has      *)
(* returned a quarter, is not ended by an exception: whatever fails in a   *)
(* (prefecture, year) unit, the run goes on with the units that remain.    *)
C18_UnitFailuresContained ==
    (r_pc = "raised" /\ r_args.mode \in {"full", "incremental"}) =>
        (r_args.mode = "incremental" /\ r_found = None)

-----------------------------------------------------------------------------
(* A run that is killed and invoked again, against unchanging upstream data. *)

(* Upstream data that do not change: the response to a call depends on its *)
(* year and quarter only.  A feed is a cycle of responses, an unavailable  *)
(* period or a list of records; the same record comes back in several      *)
(* quarters and for every prefecture, and in a dated feed each record      *)
(* carries the period it was asked for.                                    *)
Feeds ==
    LET Listed(l) == [status |-> 200, items |-> l]
        Unavailable == [status |-> 404, items |-> <<>>]
        FeedRaws ==
            <<[EmptyRecord EXCEPT !["DistrictName"] = Str(<<"a">>)],
              [EmptyRecord EXCEPT !["MunicipalityCode"] = Str(<<"1", "3", "1", "0", "1">>),
                                  !["Municipality"] = Str(<<"C">>),
                                  !["DistrictName"] = Str(<<"b">>)],
              [EmptyRecord EXCEPT !["DistrictName"] = Str(<<"a">>),
                                  !["Remarks"] = Str(<<"x">>)]>>
        Cycles ==
            { <<Listed(<<FeedRaws[1]>>), Unavailable,
                Listed(<<FeedRaws[1], FeedRaws[2], FeedRaws[3]>>)>>,
              <<Listed(<<FeedRaws[2]>>), Listed(<<>>), Listed(<<FeedRaws[3]>>),
                Listed(<<FeedRaws[1], FeedRaws[2]>>), Unavailable>> }
    IN { [t |-> "feed", cycle |-> c, dated |-> d] : c \in Cycles, d \in BOOLEAN }

FeedResponse(feed, call) ==
    LET Dated(raw) ==
            IF feed.dated
            THEN [raw EXCEPT !["Period"] = Str(IntToDigits(call.quarter.n)
                                               \o IntToDigits(call.year.n))]
            ELSE raw
        Answer(slot) ==
            IF slot.status = 404 THEN Response(404, NotJson)
            ELSE Response(200, Json(PyDict([k \in {"data"} |->
                     PyList([i \in 1..Len(slot.items) |-> Dated(slot.items[i])])])))
    IN Answer(feed.cycle[((4 * call.year.n + call.quarter.n) % Len(feed.cycle)) + 1])

\* lines 129-143 on the response of the feed: none of them is a failure
FeedOut(feed, call) ==
    CHOOSE out \in GetTransactionsOutcomes(FeedResponse(feed, call)) : TRUE

\* a full history run (lines 408-438) against some unchanging upstream data
ResumeInit ==
    /\ RunInitOf({ a \in RunArgs : a.mode = "full" }, Feeds)
    /\ r_now.month = 2

\* line 372 when no statement fails
FedPrefectureYear ==
    /\ r_feed # None
    /\ PrefectureYearEntered(0)

\* lines 378-403 when the response is the feed's and no statement fails
FedQuarter ==
    /\ r_pc = "quarter"
    /\ r_feed # None
    /\ QuarterIngested(
           FeedResponse(r_feed, FetchCall(r_unit.year, r_unit.prefecture_code,
                                          Head(r_quarters))),
           FeedOut(r_feed, FetchCall(r_unit.year, r_unit.prefecture_code,
                                     Head(r_quarters))),
           0)

(* The process is killed, between two periods (fault 0) or inside the      *)
(* period it is in before its statement number fault completes: the server *)
(* keeps what was committed (lines 313, 355) and discards the open         *)
(* transaction; main (line 599) is then invoked again with the same        *)
(* arguments and begins at the first unit.                                 *)
Interrupt ==
    /\ r_feed # None
    /\ r_pc \in {"unit", "quarter"}
    /\ \E fault \in
           IF r_pc = "quarter"
           THEN QuarterFaults(FeedOut(r_feed, FetchCall(r_unit.year,
                                  r_unit.prefecture_code, Head(r_quarters))),
                              r_unit.prefecture_code, r_unit.year, Head(r_quarters))
           ELSE {0} :
           LET Killed(db) ==
                   /\ municipalities' = db.municipalities
                   /\ transactions' = db.transactions
                   /\ open_transactions' = db.transactions
           IN IF fault = 0
              THEN Killed(Db(prefectures, municipalities, transactions,
                             conn_status, open_transactions))
              ELSE Killed(HarvestQuarter(
                              Db(prefectures, municipalities, transactions,
                                 conn_status, open_transactions),
                              FeedOut(r_feed, FetchCall(r_unit.year,
                                  r_unit.prefecture_code, Head(r_quarters))),
                              r_unit.prefecture_code, r_unit.year,
                              Head(r_quarters), fault).db)
    /\ conn_status' = "closed"
    /\ statements' = <<>>
    /\ r_pc' = "main"
    /\ r_units' = <<>>
    /\ r_unit' = None
    /\ r_quarters' = <<>>
    /\ r_total_inserted' = 0
    /\ r_request' = None
    /\ r_requests' = 0
    /\ r_waited' = 0
    /\ r_gap' = 0
    /\ r_calls' = <<>>
    /\ r_last' = None
    /\ r_resumed' = TRUE
    /\ UNCHANGED <<r_args, r_now, r_probe, r_probed, r_found, r_feed>>
    /\ UNCHANGED <<prefectures, loadVars>>
    /\ OthersUnchanged("run")

ResumeNext == Main \/ FedPrefectureYear \/ FedQuarter \/ Interrupt \/ EndOfUnits

(* One run that nothing interrupts, as a fold of the same steps over the   *)
(* units of the run and the quarters of each unit, with no failing         *)
(* statement.  Each step looks at the connection it was handed, so that    *)
(* TLC evaluates the store of a step before it goes on to the next.        *)
RECURSIVE FedQuarters(_, _, _, _)
FedQuarters(db, feed, unit, quarters) ==
    IF quarters = <<>> \/ db.conn = "closed" THEN db
    ELSE FedQuarters(
             HarvestQuarter(db,
                            FeedOut(feed, FetchCall(unit.year, unit.prefecture_code,
                                                    Head(quarters))),
                            unit.prefecture_code, unit.year, Head(quarters), 0).db,
             feed, unit, Tail(quarters))

RECURSIVE UninterruptedRun(_, _, _)
UninterruptedRun(db, feed, units) ==
    IF units = <<>> \/ db.conn = "closed" THEN db
    ELSE UninterruptedRun(
             FedQuarters(
                 After(EnsurePrefectureExists(
                           Start(db), Head(units).prefecture_code,
                           PrefectureName(Head(units).prefecture_code), 0)),
                 feed, Head(units), <<IntV(1), IntV(2), IntV(3), IntV(4)>>),
             feed, Tail(units))

-----------------------------------------------------------------------------
(* Resumability.                                                           *)

\* the fact table at the end of one uninterrupted run of this state's invocation
UninterruptedTable ==
    UninterruptedRun(Db(EmptyTable, EmptyTable, EmptyTable, "ok", EmptyTable),
                     r_feed,
                     UnitsOf(PrefecturesOf(r_args), YearsUpTo(r_now.year))).transactions

(* C19: when a full history run is killed at any point, between two        *)
(* periods or between two statements of a period, and invoked again        *)
(* against the same unchanging upstream data with no failure, the run that *)
(* reaches its end leaves the fact table that one uninterrupted run        *)
(* leaves, and no run ends with an exception.                              *)
C19_Resumable ==
    /\ r_pc # "raised"
    /\ r_pc = "done" => transactions = UninterruptedTable

\* a run that was killed while facts were committed has been run again to its end
C19_Witness ==
    /\ r_pc = "done"
    /\ r_resumed
    /\ transactions # EmptyTable
    /\ Len(r_calls) > 4

-----------------------------------------------------------------------------
(* The incremental mode.                                                   *)

\* one harvest fetch for each prefecture, in order, at the period found
HarvestOfEveryRegion(found) ==
    [i \in 1..Len(AllPrefectures) |->
        FetchCall(found.year, AllPrefectures[i], found.quarter)]

(* C20: an incremental run probes once: when the probe has returned,       *)
(* its result stands and no further probe fetch is sent.  No harvest fetch *)
(* is sent before the probe returns.  When the probe returned no period    *)
(* the run is over with no exception, no harvest fetch and an unchanged    *)
(* store.  When it returned a period, every harvest fetch is for that year *)
(* and quarter, and when the run is over there has been exactly one for    *)
(* each prefecture.                                                        *)
C20_IncrementalHarvest ==
    [][/\ r_found # None => (r_found' = r_found /\ r_probed' = r_probed)
       /\ r_found' = None => r_calls' = <<>>
       /\ r_found' = NoQuarter =>
              /\ r_pc' = "done"
              /\ r_calls' = <<>>
              /\ prefectures' = EmptyTable
              /\ municipalities' = EmptyTable
              /\ transactions' = EmptyTable
       /\ r_found' \notin {None, NoQuarter} =>
              /\ \A i \in 1..Len(r_calls') :
                     /\ r_calls'[i].year = r_found'.year
                     /\ r_calls'[i].quarter = r_found'.quarter
              /\ r_pc' \in {"done", "raised"} =>
                     r_calls' = HarvestOfEveryRegion(r_found')]_vars

-----------------------------------------------------------------------------
(* Prices and building years.                                              *)

\* the raw fields whose column is an integer (lines 267, 268, 280, 281)
IntegerFields == {"TradePrice", "UnitPrice", "CoverageRatio", "FloorAreaRatio"}

(* C27: in a transformed record, the column of TradePrice, UnitPrice,      *)
(* CoverageRatio and FloorAreaRatio is the integer part of the number that *)
(* parse_numeric gives for the raw value whenever it gives a finite        *)
(* number, zero included; it is null only when parse_numeric gives null.   *)
C27_PricePreserved ==
    (t_pc = "done" /\ t_out.exc = "") =>
        \A k \in IntegerFields :
            /\ ColumnOf(t_out.val, k) = None =>
                   ParseNumeric(Get(t_raw, k)).val = None
            /\ (/\ ParseNumeric(Get(t_raw, k)).exc = ""
                /\ ParseNumeric(Get(t_raw, k)).val # None
                /\ ParseNumeric(Get(t_raw, k)).val.f.k = "fin") =>
                   ColumnOf(t_out.val, k) =
                       IntV(PyIntOfFloat(ParseNumeric(Get(t_raw, k)).val.f).val)

(* C28: every year that parse_building_year returns lies in [1900, 2100],  *)
(* for a plain year and for an era string with any numeral and any further *)
(* digits.                                                                 *)
C28_BuildingYearRange ==
    (p_fn = "parse_building_year" /\ p_out.exc = "" /\ p_out.val # None) =>
        MinPlainYear <= p_out.val.n /\ p_out.val.n <= MaxPlainYear

-----------------------------------------------------------------------------
(* The FX rates: fetch_fx_rate and refresh_fx_rates.                       *)

FX_CURRENCIES == <<"USD", "EUR", "GBP">>
FX_START_YEAR == 2005
MaxRetries == 3
MidQuarterDay == 15

\* the 404 answers in a row that the FX API gives for one combination
MaxFallbackDays == 3

\* the runs of refresh_fx_rates, each on a connection of its own
FxRuns == {1, 2}

Date(y, m, d) == [year |-> y, month |-> m, day |-> d]

\* date <= other
DateLE(a, b) ==
    \/ a.year < b.year
    \/ a.year = b.year /\ a.month < b.month
    \/ a.year = b.year /\ a.month = b.month /\ a.day <= b.day

\* rate_date - timedelta(days=1)
DayBefore(d) ==
    LET Leap(y) == (y % 4 = 0 /\ y % 100 # 0) \/ y % 400 = 0
        DaysIn(y, m) ==
            IF m = 2 THEN (IF Leap(y) THEN 29 ELSE 28)
            ELSE IF m \in {4, 6, 9, 11} THEN 30 ELSE 31
    IN IF d.day > 1 THEN Date(d.year, d.month, d.day - 1)
       ELSE IF d.month > 1 THEN Date(d.year, d.month - 1, DaysIn(d.year, d.month - 1))
       ELSE Date(d.year - 1, 12, 31)

\* lines 558-559
MidQuarterDate(year, quarter) == Date(year, (quarter - 1) * 3 + 2, MidQuarterDay)

\* line 539
QuarterOf(today) == ((today.month - 1) \div 3) + 1

(* lines 542-561: the (year, quarter) pairs from start_year to the current *)
(* quarter, each with every currency, in the order of the loops.           *)
CombinationsToCheck(start_year, today) ==
    LET Years == IF today.year < start_year THEN 0 ELSE today.year - start_year + 1
        All == [i \in 1..(Years * 4 * Len(FX_CURRENCIES)) |->
                   [year |-> start_year + ((i - 1) \div (4 * Len(FX_CURRENCIES))),
                    quarter |-> (((i - 1) \div Len(FX_CURRENCIES)) % 4) + 1,
                    currency |-> FX_CURRENCIES[((i - 1) % Len(FX_CURRENCIES)) + 1]]]
        Future(c) ==
            \/ c.year > today.year
            \/ c.year = today.year /\ c.quarter > QuarterOf(today)
    IN SelectSeq(All, LAMBDA c : ~Future(c))

KeyOf(row) == [currency |-> row.currency, year |-> row.year, quarter |-> row.quarter]

\* lines 563-568: the SELECT finds a row of the combination
Stored(table, c) == \E row \in table : KeyOf(row) = c

\* ON CONFLICT (currency, year, quarter) DO NOTHING
UpsertRate_DoNothing(table, row) ==
    IF Stored(table, KeyOf(row)) THEN table ELSE table \cup {row}

\* lines 584-587: ON CONFLICT (currency, year, quarter) DO UPDATE SET rate, rate_date
UpsertRate(table, row) ==
    { r \in table : KeyOf(r) # KeyOf(row) } \cup {row}

RECURSIVE UpsertRates(_, _)
UpsertRates(table, rows) ==
    IF rows = <<>> THEN table
    ELSE UpsertRates(UpsertRate(table, Head(rows)), Tail(rows))

(* What the FX API may answer: a rate (one of two values), a body with no  *)
(* rates, rates without the currency asked for, a body that is JSON null,  *)
(* a body that is not JSON, not found, a server error, no answer.          *)
FxAnswerKinds ==
    {"rate 1", "rate 2", "no rates", "other currency", "null", "not json",
     "not found", "server error", "timeout"}

FxAnswer(kind, currency) ==
    LET Rates(entries) == Response(200, Json(PyDict([k \in {"rates"} |-> entries])))
        Rate(n) == FloatV(Fin(FALSE, 0, <<n>>))
    IN CASE kind = "rate 1" -> Rates(PyDict([c \in {currency} |-> Rate("6")]))
         [] kind = "rate 2" -> Rates(PyDict([c \in {currency} |-> Rate("7")]))
         [] kind = "no rates" -> Response(200, Json(PyDict([k \in {"amount"} |-> IntV(1)])))
         [] kind = "other currency" -> Rates(PyDict([c \in {"JPY"} |-> Rate("6")]))
         [] kind = "null" -> Response(200, Json(None))
         [] kind = "not json" -> Response(200, NotJson)
         [] kind = "not found" -> Response(404, NotJson)
         [] kind = "server error" -> Response(500, NotJson)
         [] OTHER -> NetworkFailure("Timeout")

\* a call of fetch_fx_rate that is about to send a request
Fetch(rate_date, currency, max_retries, level) ==
    [rate_date |-> rate_date, currency |-> currency, max_retries |-> max_retries,
     attempt |-> 0, slept |-> FALSE, level |-> level, asked |-> <<>>]

(* lines 509-533, one pass of the loop of fetch_fx_rate on the response to *)
(* its request: the call returns a rate or None, raises, goes round the    *)
(* loop to send another request (after a sleep or without one), or calls   *)
(* itself for the day before with one attempt.                             *)
FetchFxRate(fetch, response) ==
    LET Return(rate) == [k |-> "return", rate |-> rate, rate_date |-> fetch.rate_date]
        Raises(e) == [k |-> "raise", exc |-> e]
        \* the next pass of for attempt in range(max_retries), or line 533
        NextAttempt(slept) ==
            IF fetch.attempt + 1 < fetch.max_retries
            THEN [k |-> "request",
                  fetch |-> [fetch EXCEPT !.attempt = @ + 1, !.slept = slept]]
            ELSE Return(None)
        \* lines 527-531
        RequestException == NextAttempt(TRUE)
        \* lines 519-520
        RateOf(data) ==
            IF data.t = "None" THEN Raises("TypeError")
            ELSE IF data.t # "dict" THEN NextAttempt(FALSE)
            ELSE IF "rates" \notin DOMAIN data.entries THEN NextAttempt(FALSE)
            ELSE IF fetch.currency \notin DOMAIN data.entries["rates"].entries
            THEN NextAttempt(FALSE)
            ELSE Return(data.entries["rates"].entries[fetch.currency])
    IN IF response.net # "" THEN {RequestException}
       ELSE IF response.status = 200
       THEN (IF response.body.json THEN {RateOf(response.body.value)}
             \* resp.json(): JSONDecodeError is a RequestException from requests
             \* 2.27 on and a plain ValueError before
             ELSE {RequestException, Raises("ValueError")})
       ELSE IF response.status = 404
       THEN {[k |-> "request",
              fetch |-> [Fetch(DayBefore(fetch.rate_date), fetch.currency, 1,
                               fetch.level + 1)
                         EXCEPT !.asked = fetch.asked]]}
       ELSE {NextAttempt(FALSE)}

\* the FX variables of a specification with the runs given, before any has begun
FxStart(worlds, answers, runs) ==
    /\ \E w \in worlds : x_today = w.today /\ fx_rates = w.stored
    /\ x_api = answers
    /\ x_pc = [p \in FxRuns |-> IF p \in runs THEN "start" ELSE "off"]
    /\ x_todo = [p \in FxRuns |-> <<>>]
    /\ x_batch = [p \in FxRuns |-> <<>>]
    /\ x_fetch = [p \in FxRuns |-> None]
    /\ x_seen = [p \in FxRuns |-> <<>>]
    /\ x_held = [p \in FxRuns |-> <<>>]
    /\ x_applied = <<>>

FxInitOf(worlds, answers, runs) == FxStart(worlds, answers, runs) /\ Idle("fx")

(* Today's date with the rows that fx_rates holds already: early and late  *)
(* in a quarter, with none, some or all of the earlier combinations        *)
(* stored, and in the second year with one combination of the first left.  *)
FxWorlds ==
    LET Row(c) == [currency |-> c.currency, year |-> c.year, quarter |-> c.quarter,
                   rate |-> FloatV(Fin(FALSE, 0, <<"5">>)),
                   rate_date |-> MidQuarterDate(c.year, c.quarter)]
        Rows(today, n, skipped) ==
            { Row(CombinationsToCheck(FX_START_YEAR, today)[i]) :
                i \in (1..n) \ skipped }
        World(today, n, skipped) ==
            [today |-> today, stored |-> Rows(today, n, skipped)]
    IN { World(Date(FX_START_YEAR, 1, 10), 0, {}),
         World(Date(FX_START_YEAR, 2, 20), 1, {}),
         World(Date(FX_START_YEAR, 3, 31), 3, {}),
         World(Date(FX_START_YEAR, 5, 15), 3, {}),
         World(Date(FX_START_YEAR, 6, 1), 4, {2}),
         World(Date(FX_START_YEAR + 1, 1, 2), 12, {5}) }

\* one run of refresh_fx_rates (main --refresh-fx-only) whatever the API answers
FxInit == FxInitOf(FxWorlds, FxAnswerKinds, {1})

(* two runs at once in the first quarter, against an API that answers with *)
(* a rate or not at all                                                    *)
FxPairInit ==
    FxInitOf({ w \in FxWorlds : w.today.year = FX_START_YEAR /\ w.today.month <= 2 },
             {"rate 1", "rate 2", "timeout"}, FxRuns)

\* lines 538-554
RefreshFxRates(p) ==
    /\ x_pc[p] = "start"
    /\ x_pc' = [x_pc EXCEPT ![p] = "check"]
    /\ x_todo' = [x_todo EXCEPT ![p] = CombinationsToCheck(FX_START_YEAR, x_today)]
    /\ UNCHANGED <<fx_rates, x_today, x_api, x_batch, x_fetch, x_seen, x_held,
                   x_applied>>
    /\ OthersUnchanged("fx")

\* lines 556-571: the SELECT for the next combination, and the call of fetch_fx_rate
CheckRate(p) ==
    /\ x_pc[p] = "check"
    /\ x_todo[p] # <<>>
    /\ x_seen' = [x_seen EXCEPT ![p] =
                      Append(@, [combination |-> Head(x_todo[p]),
                                 stored |-> Stored(fx_rates, Head(x_todo[p])),
                                 source |-> None])]
    /\ IF Stored(fx_rates, Head(x_todo[p]))
       THEN /\ x_todo' = [x_todo EXCEPT ![p] = Tail(@)]
            /\ UNCHANGED <<x_pc, x_fetch>>
       ELSE /\ x_pc' = [x_pc EXCEPT ![p] = "fetch"]
            /\ x_fetch' = [x_fetch EXCEPT ![p] =
                   Fetch(MidQuarterDate(Head(x_todo[p]).year, Head(x_todo[p]).quarter),
                         Head(x_todo[p]).currency, MaxRetries, 0)]
            /\ UNCHANGED x_todo
    /\ UNCHANGED <<fx_rates, x_today, x_api, x_batch, x_held, x_applied>>
    /\ OthersUnchanged("fx")

\* a row dated with the day whose rate the FX API gave
RateToInsert_DateAnswered(combination, out) ==
    [currency |-> combination.currency, year |-> combination.year,
     quarter |-> combination.quarter, rate |-> out.rate, rate_date |-> out.rate_date]

\* line 574: (currency, year, quarter, rate, rate_date) with line 559's rate_date
RateToInsert(combination, out) ==
    [currency |-> combination.currency, year |-> combination.year,
     quarter |-> combination.quarter, rate |-> out.rate,
     rate_date |-> MidQuarterDate(combination.year, combination.quarter)]

(* lines 511-533 and 573-577: one request of fetch_fx_rate and what the    *)
(* code does with the response; when the call returns, the rate, if any,   *)
(* is appended to rates_to_insert with the mid-quarter date.               *)
RequestRate(p) ==
    /\ x_pc[p] = "fetch"
    /\ \E kind \in x_api :
          /\ kind = "not found" => x_fetch[p].level < MaxFallbackDays
          /\ \E out \in FetchFxRate(
                    [x_fetch[p] EXCEPT !.asked = Append(@, x_fetch[p].rate_date)],
                    FxAnswer(kind, x_fetch[p].currency)) :
                CASE out.k = "request" ->
                         /\ x_fetch' = [x_fetch EXCEPT ![p] = out.fetch]
                         /\ UNCHANGED <<x_pc, x_todo, x_batch, x_seen>>
                  [] out.k = "raise" ->
                         /\ x_pc' = [x_pc EXCEPT ![p] = "raised"]
                         /\ x_fetch' = [x_fetch EXCEPT ![p] = None]
                         /\ UNCHANGED <<x_todo, x_batch, x_seen>>
                  [] OTHER ->
                         /\ x_pc' = [x_pc EXCEPT ![p] = "check"]
                         /\ x_fetch' = [x_fetch EXCEPT ![p] = None]
                         /\ x_todo' = [x_todo EXCEPT ![p] = Tail(@)]
                         /\ x_batch' = [x_batch EXCEPT ![p] =
                                IF out.rate = None THEN @
                                ELSE Append(@, RateToInsert(Head(x_todo[p]), out))]
                         /\ x_seen' = [x_seen EXCEPT ![p][Len(x_seen[p])].source =
                                IF out.rate = None THEN None ELSE out.rate_date]
    /\ UNCHANGED <<fx_rates, x_today, x_api, x_held, x_applied>>
    /\ OthersUnchanged("fx")

(* lines 580-590: the INSERT of the next row of rates_to_insert; it waits  *)
(* while another transaction holds an uncommitted row of the same key.     *)
UpsertNextRate(p) ==
    /\ x_pc[p] \in {"check", "upsert"}
    /\ x_todo[p] = <<>>
    /\ x_batch[p] # <<>>
    /\ \A q \in FxRuns \ {p} :
          \A i \in 1..Len(x_held[q]) : KeyOf(x_held[q][i]) # KeyOf(Head(x_batch[p]))
    /\ x_pc' = [x_pc EXCEPT ![p] = "upsert"]
    /\ x_held' = [x_held EXCEPT ![p] = Append(@, Head(x_batch[p]))]
    /\ x_batch' = [x_batch EXCEPT ![p] = Tail(@)]
    /\ x_applied' = Put(x_applied, KeyOf(Head(x_batch[p])), Head(x_batch[p]))
    /\ UNCHANGED <<fx_rates, x_today, x_api, x_todo, x_fetch, x_seen>>
    /\ OthersUnchanged("fx")

\* lines 591-596: the commit; with nothing to insert the run is over (line 594)
CommitRates(p) ==
    /\ x_pc[p] \in {"check", "upsert"}
    /\ x_todo[p] = <<>>
    /\ x_batch[p] = <<>>
    /\ x_pc' = [x_pc EXCEPT ![p] = "done"]
    /\ fx_rates' = UpsertRates(fx_rates, x_held[p])
    /\ x_held' = [x_held EXCEPT ![p] = <<>>]
    /\ UNCHANGED <<x_today, x_api, x_todo, x_batch, x_fetch, x_seen, x_applied>>
    /\ OthersUnchanged("fx")

FxNext ==
    \E p \in FxRuns :
        RefreshFxRates(p) \/ CheckRate(p) \/ RequestRate(p) \/ UpsertNextRate(p)
        \/ CommitRates(p)

-----------------------------------------------------------------------------
(* Properties of the FX refresh.                                           *)

\* the combinations from the start year up to and including the current quarter
DueCombinations(today) ==
    { [year |-> y, quarter |-> q, currency |-> c] :
        y \in FX_START_YEAR..today.year, q \in 1..4, c \in {"USD", "EUR", "GBP"} }
    \ { c \in [year : {today.year}, quarter : 1..4, currency : {"USD", "EUR", "GBP"}] :
          c.quarter > QuarterOf(today) }

\* the combinations that run p has checked
Checked(seen) == { seen[i].combination : i \in 1..Len(seen) }

(* C21: a run of refresh_fx_rates checks only combinations from the start  *)
(* year up to the current quarter, each once; each check tells whether     *)
(* fx_rates holds a row of the combination at that time; a fetch is begun  *)
(* only by a check that found no row, for the currency of the combination  *)
(* checked, and every check that found no row begins one; and when the run *)
(* is over, every combination up to and including the current quarter has  *)
(* been checked.                                                           *)
C21_FetchesMissing ==
    [][/\ Checked(x_seen'[1]) \subseteq DueCombinations(x_today)
       /\ Cardinality(Checked(x_seen'[1])) = Len(x_seen'[1])
       /\ Len(x_seen'[1]) > Len(x_seen[1]) =>
              /\ x_seen'[1][Len(x_seen'[1])].stored =
                     Stored(fx_rates, x_seen'[1][Len(x_seen'[1])].combination)
              /\ x_seen'[1][Len(x_seen'[1])].stored <=> x_fetch'[1] = None
       /\ (x_fetch[1] = None /\ x_fetch'[1] # None) =>
              /\ Len(x_seen'[1]) > Len(x_seen[1])
              /\ x_fetch'[1].currency = x_seen'[1][Len(x_seen'[1])].combination.currency
       /\ x_pc'[1] \in {"done", "raised"} =>
              Checked(x_seen'[1]) = DueCombinations(x_today)]_vars

\* the dates that the fetch under way has asked the FX API for
DatesAsked(fetch) ==
    IF fetch = None THEN {} ELSE { fetch.asked[i] : i \in 1..Len(fetch.asked) }

(* C22: for one combination fetch_fx_rate asks for at most two dates, the  *)
(* mid-quarter date and the day before it: after a not found answer for    *)
(* the day before, it returns with no rate and asks for no earlier day.    *)
C22_OneLevelFallback ==
    \A p \in FxRuns :
        /\ Cardinality(DatesAsked(x_fetch[p])) <= 2
        /\ x_fetch[p] # None => x_fetch[p].level <= 1

(* C23: fetch_fx_rate sends a request for the same date again only after a *)
(* pause, and at most max_retries times in all; no answer of the FX API    *)
(* makes the run of refresh_fx_rates end with an exception, so that the    *)
(* remaining combinations are checked.                                     *)
C23_TransientFailures ==
    \A p \in FxRuns :
        /\ x_fetch[p] # None =>
               /\ x_fetch[p].attempt < MaxRetries
               /\ x_fetch[p].attempt > 0 => x_fetch[p].slept
        /\ x_pc[p] # "raised"

\* no transaction holds an uncommitted row of the key
Settled(key) ==
    \A p \in FxRuns : \A i \in 1..Len(x_held[p]) : KeyOf(x_held[p][i]) # key

(* C24: whatever the interleaving of two runs of refresh_fx_rates,         *)
(* fx_rates never holds two rows of one (currency, year, quarter), and     *)
(* once the upserts of a key are committed its row carries the rate and    *)
(* the rate_date of the upsert of that key that was applied last.          *)
C24_LastWriteWins ==
    /\ \A r1, r2 \in fx_rates : KeyOf(r1) = KeyOf(r2) => r1 = r2
    /\ \A key \in DOMAIN x_applied :
          Settled(key) =>
              \E row \in fx_rates :
                  /\ KeyOf(row) = key
                  /\ row.rate = x_applied[key].rate
                  /\ row.rate_date = x_applied[key].rate_date

(* both runs found the same combination missing, both fetched a rate for   *)
(* it and both have committed; rows with either rate are in the table      *)
C24_Witness ==
    /\ x_pc = [p \in FxRuns |-> "done"]
    /\ \E i \in 1..Len(x_seen[1]) : \E j \in 1..Len(x_seen[2]) :
          /\ x_seen[1][i].combination = x_seen[2][j].combination
          /\ x_seen[1][i].source # None
          /\ x_seen[2][j].source # None
    /\ \E row \in fx_rates : row.rate = FloatV(Fin(FALSE, 0, <<"6">>))
    /\ \E row \in fx_rates : row.rate = FloatV(Fin(FALSE, 0, <<"7">>))

(* C29: the date that refresh_fx_rates asks the FX API for, for any        *)
(* combination it fetches, the current quarter's included, is not later    *)
(* than today.                                                             *)
C29_NoFutureDate ==
    \A p \in FxRuns : x_fetch[p] # None => DateLE(x_fetch[p].rate_date, x_today)

\* the mid-quarter dates: 15 February, May, August, November
MidQuarterDates(year) == { Date(year, m, 15) : m \in {2, 5, 8, 11} }

(* C30: every row that a run of refresh_fx_rates has upserted or committed *)
(* carries as rate_date the mid-quarter date of its year and quarter, also *)
(* when its rate was the answer for an earlier day.                        *)
C30_RateDateIsMidQuarter ==
    /\ \A row \in fx_rates :
          /\ row.rate_date \in MidQuarterDates(row.year)
          /\ row.rate_date.month = 3 * row.quarter - 1
    /\ \A p \in FxRuns : \A i \in 1..Len(x_held[p]) :
          /\ x_held[p][i].rate_date \in MidQuarterDates(x_held[p][i].year)
          /\ x_held[p][i].rate_date.month = 3 * x_held[p][i].quarter - 1

(* the run is over and has written the row of a combination whose rate was *)
(* the answer for a day before the mid-quarter date                        *)
C30_Witness ==
    /\ x_pc[1] = "done"
    /\ \E i \in 1..Len(x_seen[1]) :
          /\ x_seen[1][i].source # None
          /\ x_seen[1][i].source.day < MidQuarterDay
          /\ \E row \in fx_rates :
                /\ KeyOf(row) = x_seen[1][i].combination
                /\ row.rate_date.day = MidQuarterDay
                /\ row.rate # FloatV(Fin(FALSE, 0, <<"5">>))

-----------------------------------------------------------------------------
(* Two loaders at once: insert_transactions called on two connections to   *)
(* the same store. Each call is one transaction on its connection from its *)
(* first INSERT into transactions until its commit; a row it inserted is   *)
(* invisible to the other until then, and an INSERT ... ON CONFLICT that    *)
(* meets such a row waits for the transaction that holds it to end.         *)

Loaders == {1, 2}

ConcurrentRecords ==
    { r \in LoadRecords : \A col \in Columns : Adaptable(r[col]) }

ConcurrentBatches ==
    { b \in BatchesUpTo(MaxBatch) :
        /\ \A i \in 1..Len(b) : b[i] \in ConcurrentRecords
        /\ \A i, j \in 1..Len(b) : b[i] = b[j] => i = j }

ConcurrentInit ==
    /\ prefectures = EmptyTable
    /\ municipalities = EmptyTable
    /\ transactions = EmptyTable
    /\ conn_status = "ok"
    /\ open_transactions = EmptyTable
    /\ statements = <<>>
    /\ c_pc = [p \in Loaders |-> "call"]
    /\ c_records \in [Loaders -> ConcurrentBatches]
    /\ c_values = [p \in Loaders |-> <<>>]
    /\ c_held = [p \in Loaders |-> EmptyTable]
    /\ c_rowcount = [p \in Loaders |-> -1]
    /\ c_out = [p \in Loaders |-> Ret(None)]
    /\ Idle("concurrent")

\* the transaction that holds the row the next INSERT of p conflicts with
HolderOf(p) ==
    { q \in Loaders \ {p} : Head(c_values[p]).source_hash \in DOMAIN c_held[q] }

\* lines 317-327: nothing to do, or the municipalities, each committed at once
EnterInsertTransactions(p) ==
    /\ c_pc[p] = "call"
    /\ IF c_records[p] = <<>>
       THEN /\ c_pc' = [c_pc EXCEPT ![p] = "returned"]
            /\ c_out' = [c_out EXCEPT ![p] = Ret(IntV(0))]
            /\ UNCHANGED <<municipalities, c_values>>
       ELSE /\ c_pc' = [c_pc EXCEPT ![p] = "insert"]
            /\ municipalities' =
                   EnsureMunicipalities(
                       Start(Db(prefectures, municipalities, transactions,
                                conn_status, open_transactions)),
                       c_records[p], {}, LoadPrefecture, 0).db.municipalities
            /\ c_values' = [c_values EXCEPT ![p] = ValuesOf(c_records[p])]
            /\ UNCHANGED c_out
    /\ UNCHANGED <<prefectures, transactions, conn_status, open_transactions,
                   statements, c_records, c_held, c_rowcount>>
    /\ OthersUnchanged("concurrent")

(* lines 351-352: the next row of execute_values. Every page_size rows a   *)
(* new statement begins and cur.rowcount counts from zero again.           *)
InsertNextRow(p) ==
    LET row == Head(c_values[p])
        sent == Len(c_records[p]) - Len(c_values[p])
        counted == IF sent % PageSize = 0 THEN 0 ELSE c_rowcount[p]
        conflict == \/ row.source_hash \in DOMAIN transactions
                    \/ row.source_hash \in DOMAIN c_held[p]
    IN /\ c_pc[p] = "insert"
       /\ c_values[p] # <<>>
       /\ HolderOf(p) = {}
       /\ c_values' = [c_values EXCEPT ![p] = Tail(@)]
       /\ c_held' = [c_held EXCEPT ![p] = IF conflict THEN @ ELSE InsertRow(@, row)]
       /\ c_rowcount' = [c_rowcount EXCEPT
                             ![p] = IF conflict THEN counted ELSE counted + 1]
       /\ UNCHANGED <<storeVars, c_pc, c_records, c_out>>
       /\ OthersUnchanged("concurrent")

(* Each loader waits for a row the other holds: the store ends one of the  *)
(* two transactions with a deadlock error, which insert_transactions lets  *)
(* through to its caller.                                                   *)
DeadlockDetected(p) ==
    /\ c_pc[p] = "insert"
    /\ c_values[p] # <<>>
    /\ \E q \in HolderOf(p) :
           /\ c_pc[q] = "insert"
           /\ c_values[q] # <<>>
           /\ p \in HolderOf(q)
    /\ c_pc' = [c_pc EXCEPT ![p] = "raised"]
    /\ c_out' = [c_out EXCEPT ![p] = Raise("DeadlockDetected")]
    /\ c_held' = [c_held EXCEPT ![p] = EmptyTable]
    /\ UNCHANGED <<storeVars, c_records, c_values, c_rowcount>>
    /\ OthersUnchanged("concurrent")

\* lines 353-356: the count read after the last page, the commit, the return
CommitInserted(p) ==
    /\ c_pc[p] = "insert"
    /\ c_values[p] = <<>>
    /\ c_pc' = [c_pc EXCEPT ![p] = "returned"]
    /\ transactions' =
           [h \in DOMAIN transactions \cup DOMAIN c_held[p] |->
               IF h \in DOMAIN transactions THEN transactions[h] ELSE c_held[p][h]]
    /\ open_transactions' = transactions'
    /\ c_held' = [c_held EXCEPT ![p] = EmptyTable]
    /\ c_out' = [c_out EXCEPT ![p] = Ret(IntV(c_rowcount[p]))]
    /\ UNCHANGED <<prefectures, municipalities, conn_status, statements, c_records,
                   c_values, c_rowcount>>
    /\ OthersUnchanged("concurrent")

ConcurrentNext ==
    \E p \in Loaders :
        EnterInsertTransactions(p) \/ InsertNextRow(p) \/ DeadlockDetected(p)
        \/ CommitInserted(p)

(* C25: when both concurrent calls have ended, neither has failed, every   *)
(* source_hash of either batch is stored (once: the table is keyed by it),  *)
(* and the two returned counts add up to the number of rows added to the    *)
(* table, which was empty.                                                  *)
C25_NoLockingNeeded ==
    (\A p \in Loaders : c_pc[p] \in {"returned", "raised"}) =>
        /\ \A p \in Loaders : c_pc[p] = "returned"
        /\ \A p \in Loaders : \A i \in 1..Len(c_records[p]) :
               c_records[p][i].source_hash \in DOMAIN transactions
        /\ c_out[1].val.n + c_out[2].val.n = Cardinality(DOMAIN transactions)

-----------------------------------------------------------------------------
(* main from its first line: the connection, the FX-only mode, the check   *)
(* of the API key, the mode's ingestion, the closing of the connection.    *)

MainAnswerKinds == {"rate 1", "not found", "timeout"}

MainInit ==
    /\ m_pc = "start"
    /\ m_api_key \in BOOLEAN
    /\ m_fx_only \in BOOLEAN
    /\ RunStart(RunArgs, {None})
    /\ m_api_key /\ ~m_fx_only => r_args.mode # "full"
    /\ FxStart({ w \in FxWorlds : w.today.year = FX_START_YEAR /\ w.today.month <= 2 },
               MainAnswerKinds, {})
    /\ Idle("main")

\* line 611: the connection is opened before anything else, or cannot be
MainGetDbConnection ==
    \E connected \in BOOLEAN :
        /\ m_pc = "start"
        /\ m_pc' = IF connected THEN "connected" ELSE "raised"
        /\ conn_status' = IF connected THEN "ok" ELSE conn_status
        /\ UNCHANGED <<prefectures, municipalities, transactions, open_transactions,
                       statements, runVars, fxVars, m_api_key, m_fx_only>>
        /\ OthersUnchanged("main")

\* lines 615-618: --refresh-fx-only calls refresh_fx_rates whatever the key
MainRefreshFxOnly ==
    /\ m_pc = "connected"
    /\ m_fx_only
    /\ m_pc' = "fx"
    /\ x_pc' = [x_pc EXCEPT ![1] = "start"]
    /\ UNCHANGED <<storeVars, runVars, fx_rates, x_today, x_api, x_todo, x_batch,
                   x_fetch, x_seen, x_held, x_applied, m_api_key, m_fx_only>>
    /\ OthersUnchanged("main")

\* lines 618, 655-656: refresh_fx_rates has ended; the connection is closed
MainFxReturned ==
    /\ m_pc = "fx"
    /\ x_pc[1] \in {"done", "raised"}
    /\ m_pc' = IF x_pc[1] = "done" THEN "done" ELSE "raised"
    /\ conn_status' = "closed"
    /\ UNCHANGED <<prefectures, municipalities, transactions, open_transactions,
                   statements, runVars, fxVars, m_api_key, m_fx_only>>
    /\ OthersUnchanged("main")

\* lines 621-624, 655-656: no API key: sys.exit(1), the connection is closed
MainApiKeyNotSet ==
    /\ m_pc = "connected"
    /\ ~m_fx_only
    /\ ~m_api_key
    /\ m_pc' = "exit"
    /\ conn_status' = "closed"
    /\ UNCHANGED <<prefectures, municipalities, transactions, open_transactions,
                   statements, runVars, fxVars, m_api_key, m_fx_only>>
    /\ OthersUnchanged("main")

\* lines 626-644: with a key, the mode's ingestion is entered
MainIngest ==
    /\ m_pc = "connected"
    /\ ~m_fx_only
    /\ m_api_key
    /\ Main

MainNext ==
    \/ MainGetDbConnection \/ MainRefreshFxOnly \/ MainFxReturned
    \/ MainApiKeyNotSet \/ MainIngest
    \/ ProbeQuarter \/ EnterPrefectureYear \/ IngestQuarter \/ EndOfUnits
    \/ FxNext

(* C26: without an API key and outside the FX-only mode, main never has a  *)
(* connection to the store open, sends no request to the transaction API,  *)
(* never enters the FX refresh and writes nothing; in the FX-only mode the  *)
(* missing key never makes main exit.                                       *)
C26_FatalConfiguration ==
    /\ (~m_api_key /\ ~m_fx_only) =>
           /\ conn_status = "closed"
           /\ r_requests = 0
           /\ \A p \in FxRuns : x_pc[p] = "off"
           /\ municipalities = EmptyTable /\ transactions = EmptyTable
    /\ m_fx_only => m_pc # "exit"

-----------------------------------------------------------------------------
(* Specifications.                                                         *)

SpecParse == ParseInit /\ [][ParseNext]_vars

SpecTransform == TransformInit /\ [][TransformNext]_vars

SpecHash == HashInit /\ [][HashNext]_vars

SpecFetch == FetchInit /\ [][FetchNext]_vars

SpecLoad == LoadInit /\ [][LoadNext]_vars

SpecRun == RunInit /\ [][RunNext]_vars

SpecIncremental == IncrementalInit /\ [][RunNext]_vars

SpecYear == YearInit /\ [][YearNext]_vars

SpecPeriod == PeriodInit /\ [][PeriodNext]_vars

SpecResume == ResumeInit /\ [][ResumeNext]_vars

SpecFx == FxInit /\ [][FxNext]_vars

SpecFxPair == FxPairInit /\ [][FxNext]_vars

SpecConcurrent == ConcurrentInit /\ [][ConcurrentNext]_vars

SpecMain == MainInit /\ [][MainNext]_vars

====
